---- MODULE Spec2Model ----
(***************************************************************************)
(* A model of disperse (jelmer/disperse): the changelog file model of      *)
(* src/news_file.rs, the version value and tag codec of src/version.rs,    *)
(* the version-line updater of src/custom.rs, version picking, the release *)
(* orchestrator release_project and the batch driver release_many of       *)
(* src/main.rs.                                                            *)
(*                                                                         *)
(* Text is modelled as a sequence of one-character strings, so that the    *)
(* parsing and formatting code is modelled by what it does to characters.  *)
(* An Option is a sequence of length 0 (None) or 1 (Some).                 *)
(***************************************************************************)
EXTENDS Integers, Sequences, FiniteSets, TLC

VARIABLES
    mode,        \* which entry point of the program this behaviour runs
    batch,       \* release_many and main: the batch, its tallies and the exit code
    call,        \* a library function under call: its name and its arguments
    result,      \* what that call returned (None until it returns)
    lines,       \* the changelog file of the working tree: a sequence of raw lines
    prevLines,   \* the changelog file before the last changelog operation
    arg,         \* the version argument of the last changelog operation
    argDate,     \* the release date argument of the last changelog operation
    ret,         \* the value the last changelog operation returned
    op,          \* the last changelog operation
    nops,        \* the number of changelog operations that wrote the file
    pc,          \* release_project: the step the attempt is at
    cfgR,        \* release_project: its flags and what the project is configured with
    ws,          \* release_project: the workspace (local tree, its branch and tags) and locals
    remote,      \* the remote: the main branch's tags and commits, registries, the forge
    initTags,    \* the remote tag namespace when the attempt started
    trace,       \* the side-effecting steps the attempt has executed, in order
    outcome      \* what release_project returned (None while it runs)

newsVars == <<lines, prevLines, arg, argDate, ret, op, nops>>
relVars == <<pc, cfgR, ws, remote, initTags, trace, outcome>>
fnVars == <<call, result>>
vars == <<mode, batch, fnVars, newsVars, relVars>>

None == <<>>
Some(x) == <<x>>

\* the values of the variables an entry point does not use
NewsIdle ==
    /\ prevLines = <<>> /\ arg = None /\ argDate = None /\ ret = [tag |-> "None"] /\ op = "none" /\ nops = 0

FnIdle == call = <<>> /\ result = None

RelIdle ==
    /\ pc = "idle" /\ cfgR = <<>> /\ ws = <<>> /\ remote = <<>> /\ initTags = {}
    /\ trace = <<>> /\ outcome = None

(***************************************************************************)
(* Text helpers (Rust str / [u8] methods used by the code).                *)
(***************************************************************************)
TAB == "\t"
NL == "\n"
Whitespace == {" ", TAB, NL, "\r"}
DigitChars == <<"0", "1", "2", "3", "4", "5", "6", "7", "8", "9">>
IsDigit(c) == \E i \in 1..10 : DigitChars[i] = c
DigitVal(c) == (CHOOSE i \in 1..10 : DigitChars[i] = c) - 1

\* a byte that is not valid UTF-8 wherever it stands (0xFF); a line is a
\* sequence of bytes, and String::from_utf8 fails on a line that holds one
InvalidByte == "<FF>"
IsUtf8(line) == \A i \in 1..Len(line) : line[i] # InvalidByte

StartsWith(s, p) == Len(s) >= Len(p) /\ SubSeq(s, 1, Len(p)) = p
EndsWith(s, p) == Len(s) >= Len(p) /\ SubSeq(s, Len(s) - Len(p) + 1, Len(s)) = p
ContainsChar(s, c) == \E i \in 1..Len(s) : s[i] = c
FirstIndex(s, c) == CHOOSE i \in 1..Len(s) : s[i] = c /\ \A j \in 1..(i - 1) : s[j] # c

RECURSIVE Concat(_)
Concat(ss) == IF ss = <<>> THEN <<>> ELSE Head(ss) \o Concat(Tail(ss))

\* str::trim
RECURSIVE TrimStart(_)
TrimStart(s) == IF s # <<>> /\ Head(s) \in Whitespace THEN TrimStart(Tail(s)) ELSE s
RECURSIVE TrimEnd(_)
TrimEnd(s) ==
    IF s # <<>> /\ s[Len(s)] \in Whitespace THEN TrimEnd(SubSeq(s, 1, Len(s) - 1)) ELSE s
Trim(s) == TrimEnd(TrimStart(s))

\* str::replace: every non-overlapping occurrence of pat, left to right
RECURSIVE Replace(_, _, _)
Replace(s, pat, rep) ==
    IF s = <<>> THEN <<>>
    ELSE IF StartsWith(s, pat) THEN rep \o Replace(SubSeq(s, Len(pat) + 1, Len(s)), pat, rep)
    ELSE <<Head(s)>> \o Replace(Tail(s), pat, rep)

\* str::split(c)
RECURSIVE Split(_, _)
Split(s, c) ==
    IF ~ContainsChar(s, c) THEN <<s>>
    ELSE LET i == FirstIndex(s, c)
         IN <<SubSeq(s, 1, i - 1)>> \o Split(SubSeq(s, i + 1, Len(s)), c)

\* str::split_once(c), for a text that contains c
SplitOnce(s, c) ==
    LET i == FirstIndex(s, c) IN <<SubSeq(s, 1, i - 1), SubSeq(s, i + 1, Len(s))>>

(***************************************************************************)
(* Version (src/version.rs).                                               *)
(***************************************************************************)
I32Max == 2147483647
I32Min == 0 - I32Max - 1

RECURSIVE DigitsValue(_)
DigitsValue(s) == IF s = <<>> THEN 0 ELSE 10 * DigitsValue(SubSeq(s, 1, Len(s) - 1)) + DigitVal(s[Len(s)])

\* the digits accumulated as an i32, downwards for a negative number: None
\* as soon as the value leaves the i32 range
RECURSIVE CheckedDigits(_, _)
CheckedDigits(s, neg) ==
    IF s = <<>> THEN Some(0)
    ELSE LET p == CheckedDigits(SubSeq(s, 1, Len(s) - 1), neg)
             d == DigitVal(s[Len(s)])
         IN IF p = None THEN None
            ELSE IF neg
                 THEN IF p[1] < (I32Min + d + 9) \div 10 THEN None ELSE Some(10 * p[1] - d)
                 ELSE IF p[1] > (I32Max - d) \div 10 THEN None ELSE Some(10 * p[1] + d)

\* str::parse::<i32>: an optional sign and at least one digit, within i32
ParseI32(s) ==
    LET body == IF s # <<>> /\ Head(s) \in {"+", "-"} THEN Tail(s) ELSE s
        neg == s # <<>> /\ Head(s) = "-"
    IN IF body = <<>> \/ \E i \in 1..Len(body) : ~IsDigit(body[i]) THEN None
       ELSE CheckedDigits(body, neg)

\* i32::to_string
RECURSIVE NatToString(_)
NatToString(n) ==
    IF n < 10 THEN <<DigitChars[n + 1]>> ELSE NatToString(n \div 10) \o <<DigitChars[(n % 10) + 1]>>
IntToString(n) ==
    IF n = I32Min THEN <<"-">> \o NatToString(I32Max \div 10) \o <<"8">>
    ELSE IF n < 0 THEN <<"-">> \o NatToString(0 - n)
    ELSE NatToString(n)

Version(major, minor, micro) == [major |-> major, minor |-> minor, micro |-> micro]

\* impl ToString for Version
to_string(v) ==
    IntToString(v.major)
        \o (IF v.minor # None THEN <<".">> \o IntToString(v.minor[1]) ELSE <<>>)
        \o (IF v.micro # None THEN <<".">> \o IntToString(v.micro[1]) ELSE <<>>)

\* impl FromStr for Version: Ok(version), Err (invalid major) or a panic (the
\* unwrap of a second or third segment that is not an integer)
from_str(s) ==
    LET parts == Split(s, ".")
        major == ParseI32(parts[1])
        minor == IF Len(parts) >= 2 THEN Some(ParseI32(parts[2])) ELSE None
        micro == IF Len(parts) >= 3 THEN Some(ParseI32(parts[3])) ELSE None
    IN IF major = None THEN [tag |-> "Err"]
       ELSE IF minor # None /\ minor[1] = None THEN [tag |-> "Panic"]
       ELSE IF micro # None /\ micro[1] = None THEN [tag |-> "Panic"]
       ELSE [tag |-> "Ok",
             v |-> Version(major[1],
                           IF minor = None THEN None ELSE minor[1],
                           IF micro = None THEN None ELSE micro[1])]

\* the status tokens from_tupled accepts
QuotedDev == {<<"\"", "d", "e", "v", "\"">>, <<"'", "d", "e", "v", "'">>}
QuotedFinal == {<<"\"", "f", "i", "n", "a", "l", "\"">>, <<"'", "f", "i", "n", "a", "l", "'">>}

\* from_tupled that also takes the status token without quotes
RECURSIVE from_tupled_Unquoted(_)
from_tupled_Unquoted(text) ==
    IF StartsWith(text, <<"(">>) /\ EndsWith(text, <<")">>)
    THEN from_tupled_Unquoted(SubSeq(text, 2, Len(text) - 1))
    ELSE LET parts == Split(text, ",")
             major == ParseI32(Trim(parts[1]))
             minor == IF Len(parts) >= 2 THEN Some(ParseI32(Trim(parts[2]))) ELSE None
             micro == IF Len(parts) >= 3 THEN Some(ParseI32(Trim(parts[3]))) ELSE None
             s == Trim(parts[4])
         IN IF Len(parts) > 5 THEN [tag |-> "Err", error |-> "invalid version"]
            ELSE IF major = None THEN [tag |-> "Err", error |-> "invalid major version"]
            ELSE IF minor # None /\ minor[1] = None
                 THEN [tag |-> "Err", error |-> "invalid minor version"]
            ELSE IF micro # None /\ micro[1] = None
                 THEN [tag |-> "Err", error |-> "invalid micro version"]
            ELSE IF Len(parts) >= 4 /\ s \notin QuotedDev \cup QuotedFinal
                                    /\ s \notin {<<"d", "e", "v">>, <<"f", "i", "n", "a", "l">>}
                 THEN [tag |-> "Err", error |-> "invalid status"]
            ELSE [tag |-> "Ok",
                  v |-> Version(major[1],
                                IF minor = None THEN None ELSE minor[1],
                                IF micro = None THEN None ELSE micro[1]),
                  status |-> IF Len(parts) < 4 THEN None
                             ELSE IF s \in QuotedDev \/ s = <<"d", "e", "v">> THEN Some("Dev")
                             ELSE Some("Final")]

\* Version::from_tupled: Ok(version, status) or Err(message)
RECURSIVE from_tupled(_)
from_tupled(text) ==
    IF StartsWith(text, <<"(">>) /\ EndsWith(text, <<")">>)
    THEN from_tupled(SubSeq(text, 2, Len(text) - 1))
    ELSE LET parts == Split(text, ",")
             major == ParseI32(Trim(parts[1]))
             minor == IF Len(parts) >= 2 THEN Some(ParseI32(Trim(parts[2]))) ELSE None
             micro == IF Len(parts) >= 3 THEN Some(ParseI32(Trim(parts[3]))) ELSE None
             s == Trim(parts[4])
         IN IF Len(parts) > 5 THEN [tag |-> "Err", error |-> "invalid version"]
            ELSE IF major = None THEN [tag |-> "Err", error |-> "invalid major version"]
            ELSE IF minor # None /\ minor[1] = None
                 THEN [tag |-> "Err", error |-> "invalid minor version"]
            ELSE IF micro # None /\ micro[1] = None
                 THEN [tag |-> "Err", error |-> "invalid micro version"]
            ELSE IF Len(parts) >= 4 /\ s \notin QuotedDev \cup QuotedFinal
                 THEN [tag |-> "Err", error |-> "invalid status"]
            ELSE [tag |-> "Ok",
                  v |-> Version(major[1],
                                IF minor = None THEN None ELSE minor[1],
                                IF micro = None THEN None ELSE micro[1]),
                  status |-> IF Len(parts) < 4 THEN None
                             ELSE IF s \in QuotedDev THEN Some("Dev")
                             ELSE Some("Final")]

(***************************************************************************)
(* Changelog line parser and changelog file model (src/news_file.rs).      *)
(***************************************************************************)
UNRELEASED == <<"U", "N", "R", "E", "L", "E", "A", "S", "E", "D">>
NEXT == <<"N", "E", "X", "T">>
VersionVar == <<"%", "(", "v", "e", "r", "s", "i", "o", "n", ")", "s">>
DateVar == <<"%", "(", "d", "a", "t", "e", ")", "s">>
TabTemplate == VersionVar \o <<TAB>> \o DateVar
SpaceTemplate == VersionVar \o <<" ">> \o DateVar
ParenTemplate == VersionVar \o <<" ", "(">> \o DateVar \o <<")">>
VersionOnlyTemplate == VersionVar
ChangelogFor == <<"C", "h", "a", "n", "g", "e", "l", "o", "g", " ", "f", "o", "r", " ">>
ReleaseNotes == <<" ", "r", "e", "l", "e", "a", "s", "e", " ", "n", "o", "t", "e", "s">>

date_is_placeholder(d) ==
    d = UNRELEASED \/ StartsWith(d, NEXT \o <<" ">>) \/ d = NEXT \/ d = DateVar

\* Ok(true), Ok(false) or Err(OddVersion): the regex is ^[0-9\.]+$
check_version(v) ==
    IF v = UNRELEASED \/ v = VersionVar \/ v = NEXT THEN [tag |-> "Ok", placeholder |-> TRUE]
    ELSE IF v = <<>> \/ \E i \in 1..Len(v) : ~(IsDigit(v[i]) \/ v[i] = ".")
         THEN [tag |-> "OddVersion"]
    ELSE [tag |-> "Ok", placeholder |-> FALSE]

expand_template(template, version, date) ==
    Replace(Replace(template, VersionVar, to_string(version)), DateVar, date)

\* the number of leading lines skipped; the lines are the raw lines of the file
RECURSIVE skip_header(_)
skip_header(ls) ==
    IF ls = <<>> THEN 0
    ELSE LET line == Head(ls)
         IN IF \/ StartsWith(line, ChangelogFor)
               \/ EndsWith(line, ReleaseNotes)
               \/ \A i \in 1..Len(line) : line[i] = "=" \/ line[i] = "-"
               \/ line = <<>>
            THEN 1 + skip_header(Tail(ls))
            ELSE 0

ParsedLine(version, date, template, pending) ==
    [tag |-> "Ok", version |-> version, date |-> date, template |-> template,
     pending |-> pending]

\* parse_version_line that tries the space-separated layout before the
\* tab-separated one
parse_version_line_SpaceFirst(rawline) ==
    LET line == Trim(rawline)
    IN IF ContainsChar(line, " ") THEN
           LET parts == SplitOnce(line, " ")
               paren == StartsWith(parts[2], <<"(">>) /\ EndsWith(parts[2], <<")">>)
               date == IF paren THEN SubSeq(parts[2], 2, Len(parts[2]) - 1) ELSE parts[2]
               cv == check_version(parts[1])
               dp == date_is_placeholder(date)
           IN IF parts[1] = <<>> THEN [tag |-> "Panic"]
              ELSE IF cv.tag # "Ok" THEN cv
              ELSE ParsedLine(IF ~cv.placeholder THEN Some(parts[1]) ELSE None,
                              IF ~dp THEN Some(date) ELSE None,
                              IF paren THEN ParenTemplate ELSE SpaceTemplate,
                              cv.placeholder \/ dp)
       ELSE IF ContainsChar(line, TAB) THEN
           LET parts == SplitOnce(line, TAB)
               cv == check_version(parts[1])
               dp == date_is_placeholder(parts[2])
           IN IF cv.tag # "Ok" THEN cv
              ELSE ParsedLine(IF ~cv.placeholder THEN Some(parts[1]) ELSE None,
                              IF ~dp THEN Some(parts[2]) ELSE None,
                              TabTemplate, cv.placeholder \/ dp)
       ELSE
           LET cv == check_version(line)
           IN IF cv.tag # "Ok" THEN cv
              ELSE ParsedLine(IF ~cv.placeholder THEN Some(line) ELSE None, None,
                              VersionOnlyTemplate, cv.placeholder)

\* parse_version_line: Ok(version, date, line template, pending) or
\* Err(OddVersion)
parse_version_line(rawline) ==
    LET line == Trim(rawline)
    IN IF ContainsChar(line, TAB) THEN
           LET parts == SplitOnce(line, TAB)
               cv == check_version(parts[1])
               dp == date_is_placeholder(parts[2])
           IN IF cv.tag # "Ok" THEN cv
              ELSE ParsedLine(IF ~cv.placeholder THEN Some(parts[1]) ELSE None,
                              IF ~dp THEN Some(parts[2]) ELSE None,
                              TabTemplate, cv.placeholder \/ dp)
       ELSE IF ContainsChar(line, " ") THEN
           LET parts == SplitOnce(line, " ")
               paren == StartsWith(parts[2], <<"(">>) /\ EndsWith(parts[2], <<")">>)
               date == IF paren THEN SubSeq(parts[2], 2, Len(parts[2]) - 1) ELSE parts[2]
               cv == check_version(parts[1])
               dp == date_is_placeholder(date)
           IN IF parts[1] = <<>> THEN [tag |-> "Panic"]
              ELSE IF cv.tag # "Ok" THEN cv
              ELSE ParsedLine(IF ~cv.placeholder THEN Some(parts[1]) ELSE None,
                              IF ~dp THEN Some(date) ELSE None,
                              IF paren THEN ParenTemplate ELSE SpaceTemplate,
                              cv.placeholder \/ dp)
       ELSE
           LET cv == check_version(line)
           IN IF cv.tag # "Ok" THEN cv
              ELSE ParsedLine(IF ~cv.placeholder THEN Some(line) ELSE None, None,
                              VersionOnlyTemplate, cv.placeholder)

\* news_find_pending without its test of the pending flag
news_find_pending_NoPendingTest(ls) ==
    LET i == skip_header(ls)
    IN IF i >= Len(ls) THEN [tag |-> "Panic"]
       ELSE IF ~IsUtf8(ls[i + 1]) THEN [tag |-> "InvalidData"]
       ELSE LET p == parse_version_line(ls[i + 1])
            IN IF p.tag # "Ok" THEN p ELSE [tag |-> "Ok", val |-> p.version]

\* Ok(Some(version text)), Ok(None), Err(OddVersion), or a panic (the unwrap of
\* the line after the header when there is none)
news_find_pending(ls) ==
    LET i == skip_header(ls)
    IN IF i >= Len(ls) THEN [tag |-> "Panic"]
       ELSE IF ~IsUtf8(ls[i + 1]) THEN [tag |-> "InvalidData"]
       ELSE LET p == parse_version_line(ls[i + 1])
            IN IF p.tag # "Ok" THEN p
               ELSE IF ~p.pending THEN [tag |-> "Ok", val |-> None]
               ELSE [tag |-> "Ok", val |-> p.version]

\* x.parse::<chrono::NaiveDate>() succeeds: year-month-day, numeric fields,
\* month 1..12 and day 1..31
ParsesAsNaiveDate(x) ==
    LET parts == Split(x, "-")
    IN /\ Len(parts) = 3
       /\ \A k \in 1..3 : parts[k] # <<>> /\ \A i \in 1..Len(parts[k]) : IsDigit(parts[k][i])
       /\ DigitsValue(parts[2]) \in 1..12
       /\ DigitsValue(parts[3]) \in 1..31

\* news_add_pending with the new entry inserted at the top of the file, above
\* the header lines skip_header passed over
news_add_pending_AtTop(ls, new_version) ==
    LET i == skip_header(ls)
    IN IF i >= Len(ls) THEN [tag |-> "Panic", lines |-> ls]
       ELSE IF ~IsUtf8(ls[i + 1]) THEN [tag |-> "InvalidData", lines |-> ls]
       ELSE LET p == parse_version_line(ls[i + 1])
            IN IF p.tag # "Ok" THEN [tag |-> p.tag, lines |-> ls]
               ELSE IF p.pending THEN [tag |-> "PendingExists", lines |-> ls]
               ELSE [tag |-> "Ok",
                     lines |-> <<expand_template(p.template, new_version, UNRELEASED) \o <<NL>>,
                                 <<NL>>>> \o ls]

\* the result and the lines as they are when the function returns
news_add_pending(ls, new_version) ==
    LET i == skip_header(ls)
    IN IF i >= Len(ls) THEN [tag |-> "Panic", lines |-> ls]
       ELSE IF ~IsUtf8(ls[i + 1]) THEN [tag |-> "InvalidData", lines |-> ls]
       ELSE LET p == parse_version_line(ls[i + 1])
            IN IF p.tag # "Ok" THEN [tag |-> p.tag, lines |-> ls]
               ELSE IF p.pending THEN
                   IF p.date # None /\ ~ParsesAsNaiveDate(p.date[1])
                   THEN [tag |-> "InvalidData", lines |-> ls]
                   ELSE IF p.version = None THEN [tag |-> "Panic", lines |-> ls]
                   ELSE LET v == from_str(p.version[1])
                        IN IF v.tag = "Err" THEN [tag |-> "InvalidData", lines |-> ls]
                           ELSE IF v.tag = "Panic" THEN [tag |-> "Panic", lines |-> ls]
                           ELSE [tag |-> "PendingExists", lines |-> ls]
               ELSE [tag |-> "Ok",
                     lines |-> SubSeq(ls, 1, i)
                                 \o <<expand_template(p.template, new_version, UNRELEASED) \o <<NL>>,
                                      <<NL>>>>
                                 \o SubSeq(ls, i + 1, Len(ls))]

\* chrono's format("%Y-%m-%d") of a date [y, m, d]
RECURSIVE ZeroPad(_, _)
ZeroPad(s, width) == IF Len(s) >= width THEN s ELSE ZeroPad(<<"0">> \o s, width)
FormatDate(d) ==
    ZeroPad(NatToString(d.y), 4) \o <<"-">> \o ZeroPad(NatToString(d.m), 2)
        \o <<"-">> \o ZeroPad(NatToString(d.d), 2)

\* the change lines after the header: blank or indented lines, up to the
\* first line of another shape; a line that is not UTF-8 is passed over
RECURSIVE ChangeLines(_)
ChangeLines(ls) ==
    IF ls = <<>> THEN <<>>
    ELSE LET line == Head(ls)
         IN IF ~IsUtf8(line) THEN ChangeLines(Tail(ls))
            ELSE IF Trim(line) = <<>> \/ StartsWith(line, <<" ">>) \/ StartsWith(line, <<TAB>>)
            THEN <<line>> \o ChangeLines(Tail(ls))
            ELSE <<>>

\* news_mark_released with the change lines collected from the header line on
news_mark_released_FromHeader(ls, expected_version, release_date) ==
    LET i == skip_header(ls)
    IN IF i >= Len(ls) THEN [tag |-> "Panic", lines |-> ls]
       ELSE LET p == parse_version_line(ls[i + 1])
            IN IF p.tag # "Ok" THEN [tag |-> p.tag, lines |-> ls]
               ELSE IF ~p.pending THEN [tag |-> "NoUnreleasedChanges", lines |-> ls]
               ELSE [tag |-> "Ok",
                     lines |-> [ls EXCEPT ![i + 1] =
                                   expand_template(p.template, expected_version,
                                                   FormatDate(release_date)) \o <<NL>>],
                     notes |-> Concat(ChangeLines(SubSeq(ls, i + 1, Len(ls))))]

\* news_mark_released without its test of the pending flag
news_mark_released_NoPendingTest(ls, expected_version, release_date) ==
    LET i == skip_header(ls)
    IN IF i >= Len(ls) THEN [tag |-> "Panic", lines |-> ls]
       ELSE LET p == parse_version_line(ls[i + 1])
            IN IF p.tag # "Ok" THEN [tag |-> p.tag, lines |-> ls]
               ELSE [tag |-> "Ok",
                     lines |-> [ls EXCEPT ![i + 1] =
                                   expand_template(p.template, expected_version,
                                                   FormatDate(release_date)) \o <<NL>>],
                     notes |-> Concat(ChangeLines(SubSeq(ls, i + 2, Len(ls))))]

\* the result, the lines written to the file (unchanged unless Ok) and the
\* release notes returned
news_mark_released(ls, expected_version, release_date) ==
    LET i == skip_header(ls)
    IN IF i >= Len(ls) THEN [tag |-> "Panic", lines |-> ls]
       ELSE IF ~IsUtf8(ls[i + 1]) THEN [tag |-> "InvalidData", lines |-> ls]
       ELSE LET p == parse_version_line(ls[i + 1])
            IN IF p.tag # "Ok" THEN [tag |-> p.tag, lines |-> ls]
               ELSE IF ~p.pending THEN [tag |-> "NoUnreleasedChanges", lines |-> ls]
               ELSE IF p.version # None /\ p.version[1] # to_string(expected_version)
                    THEN [tag |-> "Panic", lines |-> ls]
               ELSE [tag |-> "Ok",
                     lines |-> [ls EXCEPT ![i + 1] =
                                   expand_template(p.template, expected_version,
                                                   FormatDate(release_date)) \o <<NL>>],
                     notes |-> Concat(ChangeLines(SubSeq(ls, i + 2, Len(ls))))]

(***************************************************************************)
(* Tag codec and increment (src/version.rs).                               *)
(***************************************************************************)
VERSION_VAR == <<"$", "V", "E", "R", "S", "I", "O", "N">>

expand_tag(tag_template, version) == Replace(tag_template, VERSION_VAR, to_string(version))

\* the index of the first occurrence of pat in s (0 when there is none)
IndexOf(s, pat) ==
    LET at == {i \in 1..(Len(s) - Len(pat) + 1) : SubSeq(s, i, i + Len(pat) - 1) = pat}
    IN IF at = {} THEN 0 ELSE CHOOSE i \in at : \A j \in at : i <= j

\* regex text pat, made of literal characters and `.`, matches s at index i
MatchesAt(s, i, pat) ==
    /\ i + Len(pat) - 1 <= Len(s)
    /\ \A k \in 1..Len(pat) : (pat[k] = "." /\ s[i + k - 1] # NL) \/ pat[k] = s[i + k - 1]

\* unexpand_tag for a template with one $VERSION whose other characters are
\* letters, digits, `-`, `_`, `/` or `.`: the regex prefix(.*)suffix is
\* searched in the tag (unanchored, leftmost match, greedy group), and the
\* group is parsed with Version::from_str
unexpand_tag_match(tag_template, tag) ==
    LET at == IndexOf(tag_template, VERSION_VAR)
        prefix == SubSeq(tag_template, 1, at - 1)
        suffix == SubSeq(tag_template, at + Len(VERSION_VAR), Len(tag_template))
        Group(a, e) == SubSeq(tag, a + Len(prefix), e - 1)
        Found(a, e) ==
            /\ MatchesAt(tag, a, prefix)
            /\ e >= a + Len(prefix)
            /\ MatchesAt(tag, e, suffix)
            /\ ~ContainsChar(Group(a, e), NL)
        pairs == {ae \in (1..(Len(tag) + 1)) \X (1..(Len(tag) + 1)) : Found(ae[1], ae[2])}
    IN IF pairs = {} THEN None
       ELSE LET a == CHOOSE x \in {ae[1] : ae \in pairs} : \A ae \in pairs : x <= ae[1]
                e == CHOOSE y \in {ae[2] : ae \in {q \in pairs : q[1] = a}} :
                        \A ae \in {q \in pairs : q[1] = a} : y >= ae[2]
            IN Some(Group(a, e))

unexpand_tag(tag_template, tag) ==
    LET m == unexpand_tag_match(tag_template, tag)
    IN IF m = None THEN [tag |-> "Err"] ELSE from_str(m[1])

(***************************************************************************)
(* Version variables in file lines (src/custom.rs).                        *)
(***************************************************************************)
\* the keys of VERSION_VARIABLES, in the order they are written
VERSION_VARIABLES ==
    <<<<"T", "U", "P", "L", "E", "D", "_", "V", "E", "R", "S", "I", "O", "N">>,
      <<"S", "T", "A", "T", "U", "S", "_", "T", "U", "P", "L", "E", "D", "_", "V", "E", "R", "S", "I", "O", "N">>,
      <<"V", "E", "R", "S", "I", "O", "N">>,
      <<"M", "A", "J", "O", "R", "_", "V", "E", "R", "S", "I", "O", "N">>,
      <<"M", "I", "N", "O", "R", "_", "V", "E", "R", "S", "I", "O", "N">>,
      <<"M", "I", "C", "R", "O", "_", "V", "E", "R", "S", "I", "O", "N">>>>

\* the formatter of VERSION_VARIABLES[i] applied to (v, s): Some(text), None,
\* or a panic (the unwrap of an absent minor or micro in tupled_version and
\* status_tupled_version)
VariableValue(i, v, s) ==
    LET tupled == IntToString(v.major) \o <<",", " ">> \o IntToString(v.minor[1])
                      \o <<",", " ">> \o IntToString(v.micro[1])
    IN CASE i = 1 ->
              IF v.minor = None \/ v.micro = None THEN [tag |-> "Panic"]
              ELSE [tag |-> "Some", val |-> <<"(">> \o tupled \o <<")">>]
         [] i = 2 ->
              IF v.minor = None \/ v.micro = None THEN [tag |-> "Panic"]
              ELSE [tag |-> "Some",
                    val |-> <<"(">> \o tupled \o <<",", " ", "\"">>
                               \o (IF s = "Final" THEN <<"f", "i", "n", "a", "l">> ELSE <<"d", "e", "v">>)
                               \o <<"\"", ",", " ", "0", ")">>]
         [] i = 3 -> [tag |-> "Some", val |-> to_string(v)]
         [] i = 4 -> [tag |-> "Some", val |-> IntToString(v.major)]
         [] i = 5 -> IF v.minor = None THEN [tag |-> "None"]
                     ELSE [tag |-> "Some", val |-> IntToString(v.minor[1])]
         [] i = 6 -> IF v.micro = None THEN [tag |-> "None"]
                     ELSE [tag |-> "Some", val |-> IntToString(v.micro[1])]

\* expand_version_vars; order is the order in which the HashMap yields the
\* variables in this process
RECURSIVE expand_version_vars(_, _, _, _)
expand_version_vars(text, new_version, status, order) ==
    IF order = <<>> THEN [tag |-> "Ok", text |-> text]
    ELSE LET i == Head(order)
             var == <<"$">> \o VERSION_VARIABLES[i]
             val == VariableValue(i, new_version, status)
         IN IF val.tag = "Panic" THEN [tag |-> "Panic"]
            ELSE IF val.tag = "Some"
                 THEN expand_version_vars(Replace(text, var, val.val),
                                          new_version, status, Tail(order))
            ELSE IF IndexOf(text, var) # 0
                 THEN [tag |-> "Err", error |-> "no expansion for variable", var |-> i]
            ELSE expand_version_vars(text, new_version, status, Tail(order))

\* the characters of [A-Z_]
UpperOrUnderscore ==
    {"A", "B", "C", "D", "E", "F", "G", "H", "I", "J", "K", "L", "M", "N", "O", "P", "Q",
     "R", "S", "T", "U", "V", "W", "X", "Y", "Z", "_"}

\* the longest prefix of s made of [A-Z_]
RECURSIVE NamePrefix(_)
NamePrefix(s) ==
    IF s # <<>> /\ Head(s) \in UpperOrUnderscore THEN <<Head(s)>> \o NamePrefix(Tail(s))
    ELSE <<>>

\* version_line_re: the regex of a new-line template, as a sequence of
\* literal characters and ".*" groups (one for every `$NAME` whose NAME is a
\* key of VERSION_VARIABLES); every other character is escaped and stands
\* for itself
RECURSIVE version_line_re_pattern(_)
version_line_re_pattern(new_line) ==
    IF new_line = <<>> THEN <<>>
    ELSE LET name == NamePrefix(Tail(new_line))
         IN IF Head(new_line) = "$" /\ \E i \in DOMAIN VERSION_VARIABLES : VERSION_VARIABLES[i] = name
            THEN <<".*">> \o version_line_re_pattern(SubSeq(new_line, Len(name) + 2, Len(new_line)))
            ELSE <<Head(new_line)>> \o version_line_re_pattern(Tail(new_line))

\* the names of the groups of version_line_re, in order
RECURSIVE version_line_re_groups(_)
version_line_re_groups(new_line) ==
    IF new_line = <<>> THEN <<>>
    ELSE LET name == NamePrefix(Tail(new_line))
         IN IF Head(new_line) = "$" /\ \E i \in DOMAIN VERSION_VARIABLES : VERSION_VARIABLES[i] = name
            THEN <<name>> \o version_line_re_groups(SubSeq(new_line, Len(name) + 2, Len(new_line)))
            ELSE version_line_re_groups(Tail(new_line))

\* version_line_re: Regex::new rejects a group name used twice, and the
\* unwrap panics
version_line_re(new_line) ==
    LET names == version_line_re_groups(new_line)
    IN IF \E i, j \in DOMAIN names : i # j /\ names[i] = names[j] THEN [tag |-> "Panic"]
       ELSE [tag |-> "Ok", re |-> version_line_re_pattern(new_line)]

\* Regex::new(m) for an explicit match made of plain characters and `.*`
RECURSIVE match_re(_)
match_re(m) ==
    IF m = <<>> THEN <<>>
    ELSE IF Len(m) >= 2 /\ m[1] = "." /\ m[2] = "*"
         THEN <<".*">> \o match_re(SubSeq(m, 3, Len(m)))
    ELSE <<Head(m)>> \o match_re(Tail(m))

\* the pattern matches a prefix of s (`.*` takes any characters but a newline)
RECURSIVE MatchesPrefix(_, _)
MatchesPrefix(re, s) ==
    IF re = <<>> THEN TRUE
    ELSE IF Head(re) = ".*"
         THEN \E k \in 0..Len(s) :
                 /\ \A j \in 1..k : s[j] # NL
                 /\ MatchesPrefix(Tail(re), SubSeq(s, k + 1, Len(s)))
    ELSE s # <<>> /\ Head(s) = Head(re) /\ MatchesPrefix(Tail(re), Tail(s))

\* Regex::is_match: the pattern matches somewhere in the line
is_match(re, line) == \E i \in 1..(Len(line) + 1) : MatchesPrefix(re, SubSeq(line, i, Len(line)))

\* Regex::captures at the start of s: the texts of the groups of the pattern,
\* each `.*` taking as many characters as the rest of the pattern allows
\* (None when the pattern does not match there)
RECURSIVE CapturesPrefix(_, _)
CapturesPrefix(re, s) ==
    IF ~MatchesPrefix(re, s) THEN None
    ELSE IF re = <<>> THEN Some(<<>>)
    ELSE IF Head(re) = ".*"
         THEN LET ks == {k \in 0..Len(s) :
                            /\ \A j \in 1..k : s[j] # NL
                            /\ MatchesPrefix(Tail(re), SubSeq(s, k + 1, Len(s)))}
                  k == CHOOSE x \in ks : \A y \in ks : y <= x
              IN Some(<<SubSeq(s, 1, k)>> \o CapturesPrefix(Tail(re), SubSeq(s, k + 1, Len(s)))[1])
    ELSE CapturesPrefix(Tail(re), Tail(s))

\* Regex::captures_iter(line): the groups of the leftmost match. A pattern
\* with a group has one match in a line at most, since its last group runs
\* to the last place where the rest of the pattern matches.
captures(re, line) ==
    LET at == {i \in 1..(Len(line) + 1) : MatchesPrefix(re, SubSeq(line, i, Len(line)))}
    IN IF at = {} THEN None
       ELSE CapturesPrefix(re, SubSeq(line, CHOOSE i \in at : \A j \in at : i <= j, Len(line)))

\* version_from_capture_matches, lines 139-188: `names` are the group names
\* of the pattern and `texts`, when there is a match, what they captured
version_from_capture_matches(names, texts) ==
    LET Group(i) == IF texts # None /\ \E k \in DOMAIN names : names[k] = VERSION_VARIABLES[i]
                    THEN Some(texts[1][CHOOSE k \in DOMAIN names : names[k] = VERSION_VARIABLES[i]])
                    ELSE None
        Component(g) == IF g = None THEN None ELSE ParseI32(g[1])
        Decoded(g, c, whole, tupled) ==
            LET last == IF tupled.tag = "Ok" THEN Some(tupled.v)
                        ELSE IF whole.tag = "Ok" THEN Some(whole.v)
                        ELSE None
                major == IF last # None THEN Some(last[1].major) ELSE c[4]
                minor == IF last # None THEN last[1].minor ELSE c[5]
                micro == IF last # None THEN last[1].micro ELSE c[6]
            IN IF \/ \E i \in 4..6 : g[i] # None /\ c[i] = None
                  \/ whole.tag \in {"Err", "Panic"}
                  \/ tupled.tag \in {"Err", "Panic"}
               THEN [tag |-> "Panic"]
               ELSE IF major = None THEN [tag |-> "Ok", v |-> None, status |-> None]
               ELSE [tag |-> "Ok", v |-> Some(Version(major[1], minor, micro)),
                     status |-> IF tupled.tag = "Ok" THEN tupled.status ELSE None]
        Tupled(g) == IF g = None THEN [tag |-> "None"] ELSE from_tupled(g[1])
        Whole(g) == IF g = None THEN [tag |-> "None"] ELSE from_str(g[1])
        Decode(g) == Decoded(g, [i \in DOMAIN g |-> Component(g[i])], Whole(g[3]),
                             Tupled(IF g[1] # None THEN g[1] ELSE g[2]))
    IN Decode([i \in DOMAIN VERSION_VARIABLES |-> Group(i)])

\* reverse_version, lines 197-207
RECURSIVE reverse_version(_, _)
reverse_version(new_line, ls) ==
    LET re == version_line_re(new_line)
    IN IF re.tag = "Panic" THEN re
       ELSE IF ls = <<>> THEN [tag |-> "Ok", v |-> None, status |-> None]
       ELSE LET r == version_from_capture_matches(version_line_re_groups(new_line),
                                                  captures(re.re, Head(ls)))
            IN IF r.tag = "Panic" \/ r.v # None THEN r
               ELSE reverse_version(new_line, Tail(ls))

\* update_version_in_file on the lines of the file: the result and the file
\* after the call. A line that is not UTF-8 is passed over; the unwrap of a
\* failed expansion panics at the first matching line; the file is written
\* only at the end of a call that found a match
update_version_in_file(file, new_line, match, new_version, status, order) ==
    LET r == IF match # None THEN [tag |-> "Ok", re |-> match_re(match[1])]
             ELSE version_line_re(new_line)
        Matching(i) == IsUtf8(file[i]) /\ is_match(r.re, file[i])
        expanded == expand_version_vars(new_line, new_version, status, order)
    IN IF r.tag = "Panic" THEN [tag |-> "Panic", file |-> file]
       ELSE IF \A i \in DOMAIN file : ~Matching(i)
            THEN [tag |-> "Err", error |-> "No matches", file |-> file]
       ELSE IF expanded.tag # "Ok" THEN [tag |-> "Panic", file |-> file]
       ELSE [tag |-> "Ok",
             file |-> [i \in DOMAIN file |-> IF Matching(i) THEN expanded.text ELSE file[i]]]

\* BufRead::lines of the bytes of a file: the pieces between the newlines,
\* without their terminators, and no piece after a final newline
buf_lines(bytes) ==
    LET pieces == Split(bytes, NL)
    IN IF pieces[Len(pieces)] = <<>> THEN SubSeq(pieces, 1, Len(pieces) - 1) ELSE pieces

\* find_last_version_in_files (src/lib.rs), lines 177-196, for one entry of
\* update_version: the file as put_file_bytes_non_atomic wrote it is read
\* line by line (the unwrap of a line that is not UTF-8 panics) and
\* reverse_version is applied with the template of the entry
read_version_back(new_line, file) ==
    LET ls == buf_lines(Concat(file))
    IN IF \E i \in DOMAIN ls : ~IsUtf8(ls[i]) THEN [tag |-> "Panic"]
       ELSE reverse_version(new_line, ls)

(***************************************************************************)
(* Version arithmetic and ordering (src/version.rs).                       *)
(***************************************************************************)
\* `+= 1` on an i32 in a build without overflow checks: two's complement wrap
Add1(n) == IF n = I32Max THEN I32Min ELSE n + 1

\* the version after the call, for idx in {0, 1, 2, -1} and when the call
\* does not panic
increase_version(version, idx) ==
    CASE idx = 0 -> [version EXCEPT !.major = Add1(@)]
      [] idx = 1 -> [version EXCEPT !.minor = IF @ # None THEN Some(Add1(@[1])) ELSE Some(1)]
      [] idx = 2 -> [version EXCEPT !.micro = IF @ # None THEN Some(Add1(@[1])) ELSE Some(1)]
      [] idx = -1 ->
            IF version.micro # None THEN [version EXCEPT !.micro = Some(Add1(@[1]))]
            ELSE IF version.minor # None THEN [version EXCEPT !.minor = Some(Add1(@[1]))]
            ELSE [version EXCEPT !.major = Add1(@)]

\* the component `+= 1` is applied to (None when a component is set to 1)
IncreasedComponent(version, idx) ==
    CASE idx = 0 -> Some(version.major)
      [] idx = 1 -> version.minor
      [] idx = 2 -> version.micro
      [] idx = -1 ->
            IF version.micro # None THEN version.micro
            ELSE IF version.minor # None THEN version.minor
            ELSE Some(version.major)

\* the call panics: any other index, or `+= 1` overflowing in a build with
\* overflow checks
increase_version_panics(version, idx, overflow_checks) ==
    \/ idx \notin {0, 1, 2, -1}
    \/ overflow_checks /\ IncreasedComponent(version, idx) = Some(I32Max)

\* derived Ord of Option<i32>: None below every Some
OptLess(a, b) == (a = None /\ b # None) \/ (a # None /\ b # None /\ a[1] < b[1])
\* derived Ord of Version: lexicographic on (major, minor, micro)
VersionLess(a, b) ==
    \/ a.major < b.major
    \/ a.major = b.major /\ OptLess(a.minor, b.minor)
    \/ a.major = b.major /\ a.minor = b.minor /\ OptLess(a.micro, b.micro)

\* find_pending_version (src/lib.rs): the changelog, when one is configured
find_pending_version(news_file, ls) ==
    IF ~news_file THEN [tag |-> "NotFound"]
    ELSE LET r == news_find_pending(ls)
         IN IF r.tag = "Panic" THEN r
            ELSE IF r.tag = "OddVersion" THEN [tag |-> "OddPendingVersion"]
            ELSE IF r.tag = "InvalidData" THEN [tag |-> "Other"]
            ELSE IF r.val = None THEN [tag |-> "NoUnreleasedChanges"]
            ELSE LET v == from_str(r.val[1])
                 IN IF v.tag = "Ok" THEN v ELSE [tag |-> "Panic"]

(***************************************************************************)
(* The changelog operations on a working tree (SpecNews).                  *)
(***************************************************************************)
MaxOps == 2
MaxMajor == 2

Str_foo == <<"f", "o", "o">>
Date1 == <<"2", "0", "2", "1", "-", "0", "1", "-", "0", "1">>
Banner == ChangelogFor \o Str_foo \o <<NL>>
Rule == <<"=", "=", "=", NL>>
Change1 == <<" ", " ", "*", " ", "C", "1", NL>>
OldEntry == <<"0", ".", "9", " ">> \o Date1 \o <<NL>>

\* the versions the operations are called with
NewVersions ==
    {Version(M, None, None) : M \in 1..MaxMajor}
        \cup {Version(1, Some(2), None), Version(1, Some(2), Some(4))}

\* version and date tokens of the first entry's header
VersionTokens ==
    {to_string(v) : v \in NewVersions}
        \cup {UNRELEASED, NEXT, VersionVar, <<"1", ".", "2", "a">>, <<"1", ".", ".", "2">>}
DateTokens ==
    {Date1, UNRELEASED, NEXT, NEXT \o <<" ">> \o Str_foo, DateVar, Str_foo}

EntryHeaders ==
    {v \o <<TAB>> \o d \o <<NL>> : v \in VersionTokens, d \in DateTokens}
        \cup {v \o <<" ">> \o d \o <<NL>> : v \in VersionTokens, d \in DateTokens}
        \cup {v \o <<" ", "(">> \o d \o <<")", NL>> : v \in VersionTokens, d \in DateTokens}
        \cup {v \o <<NL>> : v \in VersionTokens}

FileHeaders == {<<>>, <<Banner>>, <<Banner, Rule>>, <<Banner, <<NL>>>>}
\* a line that is not valid UTF-8, and a change line after it
BadLine == <<InvalidByte, NL>>
Change2 == <<TAB, "*", " ", "C", "2", NL>>
FileBodies ==
    {<<>>, <<<<NL>>, Change1, <<NL>>, OldEntry>>, <<Change1, BadLine, Change2, OldEntry>>}

NewsFiles ==
    {h \o <<e>> \o b : h \in FileHeaders, e \in EntryHeaders, b \in FileBodies}
        \cup {<<>>, <<Banner>>, <<Banner, BadLine, Change1>>}

ReleaseDates == {[y |-> 2024, m |-> 3, d |-> 7]}

NewsInit ==
    /\ mode = "news"
    /\ batch = <<>>
    /\ FnIdle
    /\ lines \in NewsFiles
    /\ prevLines = lines
    /\ arg = None
    /\ argDate = None
    /\ ret = [tag |-> "None"]
    /\ op = "none"
    /\ nops = 0
    /\ RelIdle

\* a panic ends the process
NewsRunning == mode = "news" /\ ret.tag # "Panic"

\* tree_news_add_pending: the file is written only when news_add_pending is Ok
AddPending ==
    /\ NewsRunning /\ nops < MaxOps
    /\ \E v \in NewVersions :
          LET r == news_add_pending(lines, v)
          IN /\ arg' = Some(v)
             /\ ret' = r
             /\ lines' = IF r.tag = "Ok" THEN r.lines ELSE lines
    /\ prevLines' = lines
    /\ argDate' = None
    /\ op' = "add_pending"
    /\ nops' = nops + 1
    /\ UNCHANGED <<mode, batch, fnVars, relVars>>

\* tree_news_find_pending
FindPending ==
    /\ NewsRunning /\ op # "find_pending"
    /\ ret' = news_find_pending(lines)
    /\ op' = "find_pending"
    /\ arg' = None
    /\ argDate' = None
    /\ prevLines' = lines
    /\ UNCHANGED <<mode, batch, fnVars, lines, nops, relVars>>

\* NewsFile::mark_released: the file is written only on success
MarkReleased ==
    /\ NewsRunning /\ nops < MaxOps
    /\ \E v \in NewVersions, d \in ReleaseDates :
          LET r == news_mark_released(lines, v, d)
          IN /\ arg' = Some(v)
             /\ argDate' = Some(d)
             /\ ret' = r
             /\ lines' = IF r.tag = "Ok" THEN r.lines ELSE lines
    /\ prevLines' = lines
    /\ op' = "mark_released"
    /\ nops' = nops + 1
    /\ UNCHANGED <<mode, batch, fnVars, relVars>>

NewsNext == AddPending \/ FindPending \/ MarkReleased


SpecNews == NewsInit /\ [][NewsNext]_vars

(***************************************************************************)
(* Changes since the last release (src/lib.rs).                            *)
(*                                                                         *)
(* A branch is its left-hand ancestry, tip first: `ancestry[i]` is the set *)
(* of tags that point at revision i and `trees[i]` its tree, a function    *)
(* from the paths to their contents.                                       *)
(***************************************************************************)
MaxRevisions == 2
Paths == {"NEWS", "src"}
Contents == {"absent", "a", "b"}
RevisionTrees == [Paths -> Contents]
NullTree == [p \in Paths |-> "absent"]

\* intertree::get(from, to).compare(), lib.rs:111
compare(from_tree, to_tree) ==
    [added |-> {p \in Paths : from_tree[p] = "absent" /\ to_tree[p] # "absent"},
     removed |-> {p \in Paths : from_tree[p] # "absent" /\ to_tree[p] = "absent"},
     modified |-> {p \in Paths : /\ from_tree[p] # "absent" /\ to_tree[p] # "absent"
                                 /\ from_tree[p] # to_tree[p]}]

has_changed(delta) == delta.added # {} \/ delta.removed # {} \/ delta.modified # {}

\* check_new_revisions, lib.rs:79-90: the nearest revision of the ancestry
\* that has a tag
from_revid(branch) ==
    LET tagged == {i \in DOMAIN branch.ancestry : branch.ancestry[i] # {}}
    IN IF tagged = {} THEN None
       ELSE Some(CHOOSE i \in tagged : \A j \in tagged : i <= j)

\* check_new_revisions that counts a modification of the news file
check_new_revisions_CountingNews(branch, news_file_path) ==
    IF from_revid(branch) = Some(1) THEN FALSE
    ELSE has_changed(compare(IF from_revid(branch) = None THEN NullTree
                             ELSE branch.trees[from_revid(branch)[1]],
                             branch.trees[1]))

\* check_new_revisions, lib.rs:71-121, when the branch can be read
check_new_revisions(branch, news_file_path) ==
    IF from_revid(branch) = Some(1) THEN FALSE
    ELSE LET from_tree == IF from_revid(branch) = None THEN NullTree
                          ELSE branch.trees[from_revid(branch)[1]]
             last_tree == branch.trees[1]
             delta == compare(from_tree, last_tree)
         IN has_changed(IF news_file_path = None THEN delta
                        ELSE [delta EXCEPT !.modified = @ \ {news_file_path[1]}])

\* the histories of a branch of at most MaxRevisions revisions whose tags are
\* among `tags`, each tag on one revision
Histories(tags) ==
    UNION {{[ancestry |-> a, trees |-> t] :
                a \in {x \in [1..n -> {{}} \cup {{g} : g \in tags}] :
                          \A i, j \in 1..n : i # j => x[i] \cap x[j] = {}},
                t \in [1..n -> RevisionTrees]} : n \in 1..MaxRevisions}

(***************************************************************************)
(* The age of the last commit (src/main.rs). Times are in hours.           *)
(***************************************************************************)
HoursPerDay == 24

\* chrono::TimeDelta::num_days: whole days, truncated towards zero
num_days(time_delta) ==
    IF time_delta >= 0 THEN time_delta \div HoursPerDay
    ELSE 0 - ((0 - time_delta) \div HoursPerDay)

\* (days as u64) < timeout_days, line 642: the cast of a negative i64 wraps
\* to 2^64 - |days|, which no timeout of the inputs reaches
as_u64_less(days, timeout_days) == days >= 0 /\ days < timeout_days

\* check_release_age, lines 629-650
check_release_age(c) ==
    IF c.revision_error THEN [tag |-> "Panic"]
    ELSE IF c.release_timeout # None
            /\ as_u64_less(num_days(c.now - c.commit_time), c.release_timeout[1])
    THEN [tag |-> "RecentCommits", min_commit_age |-> c.release_timeout[1],
          commit_age |-> num_days(c.now - c.commit_time)]
    ELSE [tag |-> "Ok"]

\* release_project, lines 1156-1168: the gate on the age of the tip
release_age_gate(c) ==
    LET r == check_release_age(c)
    IN IF r.tag = "RecentCommits" /\ c.force THEN [tag |-> "Ok"] ELSE r

MaxAge == 4
MaxReleaseTimeout == 2
AgeNow == 4 * HoursPerDay
ReleaseAgeCalls ==
    {[fn |-> "release_age_gate", now |-> AgeNow, commit_time |-> AgeNow - 12 * k,
      release_timeout |-> t, force |-> f, revision_error |-> e] :
        k \in (0 - MaxAge)..MaxAge,
        t \in {None} \cup {Some(d) : d \in 0..MaxReleaseTimeout},
        f \in BOOLEAN, e \in BOOLEAN}

\* what the gate can answer
ReleaseAgeOutcomes == {release_age_gate(c) : c \in ReleaseAgeCalls}

(***************************************************************************)
(* release_project (src/main.rs): one release attempt (Spec).              *)
(***************************************************************************)
MaxTagged == 2
MaxTarballs == 1

cfg_tag_name == <<"v">> \o VERSION_VAR
Now == [y |-> 2024, m |-> 3, d |-> 7]

\* versions whose release tag may exist when the attempt starts
TaggedVersions == {Version(1, Some(2), Some(2 + k)) : k \in 1..MaxTagged}
\* versions find_last_version may report, and the explicit new_version argument
LastVersions == {Version(1, Some(2), Some(3)), Version(1, Some(2), None)}
ExplicitVersions == {Version(1, Some(2), Some(4))}

PendingEntry == <<"1", ".", "2", ".", "4", " ">> \o UNRELEASED \o <<NL>>
ReleasedEntry == <<"1", ".", "2", ".", "3", " ">> \o Date1 \o <<NL>>
ReleaseNewsFiles ==
    {<<Banner, PendingEntry, <<NL>>, Change1, <<NL>>, ReleasedEntry>>,
     <<NEXT \o <<TAB>> \o UNRELEASED \o <<NL>>, Change1>>,
     <<NEXT \o <<NL>>, Change1>>,
     <<ReleasedEntry, Change1>>}

\* lines 1098-1141: the fresh clone an attempt works in. `released` is the
\* version an earlier attempt on this repository released and `cloned` the
\* changelog of the main branch when that attempt cloned it.
Workspace(released, cloned) ==
    [tags |-> {}, history |-> None, commits |-> <<>>, new_version |-> None,
     found_version |-> None, last_version |-> None,
     notes |-> None, built |-> FALSE, pypi |-> FALSE, twine |-> FALSE,
     cargo |-> FALSE, ntar |-> 0, ci_wait |-> "none", publish_error |-> None,
     released |-> released, cloned |-> cloned]

Init ==
    /\ mode = "release"
    /\ batch = <<>>
    /\ FnIdle
    /\ NewsIdle
    /\ pc = "open"
    /\ cfgR \in [dry_run : BOOLEAN, gh : BOOLEAN, lp : BOOLEAN, news : BOOLEAN,
                 new_version : {None} \cup {Some(v) : v \in ExplicitVersions}]
    /\ lines \in (IF cfgR.news THEN ReleaseNewsFiles ELSE {<<>>})
    /\ remote \in [tags : SUBSET {expand_tag(cfg_tag_name, v) : v \in TaggedVersions},
                   branch : {<<>>}, proposals : {{}}, registry : {{}}, forge : {{}}]
    /\ initTags = remote.tags
    /\ ws = Workspace(None, lines)
    /\ trace = <<>>
    /\ outcome = None

\* "again" is a further attempt on the repository an earlier one released from
Running(at) == mode \in {"release", "again"} /\ pc = at /\ outcome = None

\* return Err(e) / Ok / panic: the attempt is over
Return(e) == pc' = "done" /\ outcome' = Some(e)
Goto(next) == pc' = next /\ UNCHANGED outcome

\* lines 793-901: open the branch, find the public branch, build the workspace
\* (the local tree is a fresh clone of the main branch, tags included)
OpenRepository ==
    /\ Running("open")
    /\ \/ Return("RepositoryUnavailable") /\ UNCHANGED ws
       \/ Return("NoPublicBranch") /\ UNCHANGED ws
       \/ Goto("config") /\ ws' = [ws EXCEPT !.tags = remote.tags]
    /\ UNCHANGED <<mode, batch, fnVars, newsVars, cfgR, remote, initTags, trace>>

\* lines 903-910
ReadConfig ==
    /\ Running("config")
    /\ \/ Return("NoDisperseConfig")
       \/ Goto("forge")
    /\ UNCHANGED <<mode, batch, fnVars, newsVars, cfgR, ws, remote, initTags, trace>>

\* lines 935-1141: look the project up on Launchpad and GitHub (read-only
\* calls) and check the CI status of the branch
IdentifyForge ==
    /\ Running("forge")
    /\ \/ (cfgR.gh \/ cfgR.lp) /\ Return("Other")
       \/ Return("NoPublicBranch")
       \/ /\ cfgR.gh
          /\ \E status \in {"Failed", "Pending", "Err"}, ignore_ci \in BOOLEAN :
                IF status = "Err" THEN Return("CIFailed")
                ELSE IF ignore_ci THEN Goto("new_revisions")
                ELSE Return(IF status = "Failed" THEN "CIFailed" ELSE "CIPending")
       \/ Goto("new_revisions")
    /\ UNCHANGED <<mode, batch, fnVars, newsVars, cfgR, ws, remote, initTags, trace>>

\* The main branch an earlier attempt left behind, tip first: its "Start on"
\* commit changes the changelog alone (lines 1488-1505) and its release
\* commit carries the tag that attempt pushed (lines 1290-1302, 1349-1362).
LeftHistory ==
    LET tag == expand_tag(cfg_tag_name, ws.released[1])
        released == [p \in Paths |-> "a"]
        started == [released EXCEPT !["NEWS"] = "b"]
    IN IF Len(remote.branch) = 2
       THEN [ancestry |-> <<{}, {tag}>>, trees |-> <<started, released>>]
       ELSE [ancestry |-> <<{tag}>>, trees |-> <<released>>]

\* The histories the clone of this attempt can have. A first attempt finds
\* whatever the repository holds. A further one finds the branch the earlier
\* attempt pushed to, or, when that attempt's commits wait in a merge
\* proposal, the branch as that attempt found it (its changes unreleased,
\* the new tag outside its ancestry).
AttemptHistories ==
    IF ws.released = None THEN Histories(ws.tags)
    ELSE IF remote.branch # <<>> THEN {LeftHistory}
    ELSE {h \in Histories(ws.tags \ {expand_tag(cfg_tag_name, ws.released[1])}) :
             check_new_revisions(h, IF cfgR.news THEN Some("NEWS") ELSE None)}

\* lines 1143-1154: check_new_revisions on the branch of the local tree,
\* whose history is read here; branch.tags().unwrap() panics and the other
\* failures of reading the branch are returned
CheckNewRevisions ==
    /\ Running("new_revisions")
    /\ \/ Return("Other") /\ UNCHANGED ws
       \/ Return("Panic") /\ UNCHANGED ws
       \/ \E branch \in AttemptHistories :
             /\ ws' = [ws EXCEPT !.history = Some(branch)]
             /\ IF check_new_revisions(branch, IF cfgR.news THEN Some("NEWS") ELSE None)
                THEN Goto("release_age")
                ELSE Return("NoUnreleasedChanges")
    /\ UNCHANGED <<mode, batch, fnVars, newsVars, cfgR, remote, initTags, trace>>

\* lines 1156-1168
CheckReleaseAge ==
    /\ Running("release_age")
    /\ \E r \in ReleaseAgeOutcomes :
          CASE r.tag = "Ok" -> Goto("pick")
            [] r.tag = "RecentCommits" -> Return("RecentCommits")
            [] r.tag = "Panic" -> Return("Panic")
    /\ ws' = [ws EXCEPT !.history = None]
    /\ UNCHANGED <<mode, batch, fnVars, newsVars, cfgR, remote, initTags, trace>>

\* lines 1170-1178 and pick_new_version, lines 417-442: the explicit version,
\* else the pending version of the changelog, else find_last_version's result
PickVersion ==
    /\ Running("pick")
    /\ IF cfgR.new_version # None
       THEN Goto("pre_dist") /\ ws' = [ws EXCEPT !.new_version = cfgR.new_version]
       ELSE LET r == find_pending_version(cfgR.news, lines)
            IN CASE r.tag = "Ok" -> Goto("pre_dist") /\ ws' = [ws EXCEPT !.new_version = Some(r.v)]
                 [] r.tag = "Panic" -> Return("Panic") /\ UNCHANGED ws
                 [] r.tag \in {"OddPendingVersion", "NoUnreleasedChanges"} ->
                        Return("Other") /\ UNCHANGED ws
                 [] r.tag = "NotFound" ->
                        \/ Return("Other") /\ UNCHANGED ws
                        \/ \E v \in LastVersions :
                              Goto("pick_loop")
                                /\ ws' = [ws EXCEPT !.found_version = Some(v),
                                                    !.last_version = Some(v)]
    /\ UNCHANGED <<mode, batch, fnVars, newsVars, cfgR, remote, initTags, trace>>

\* the loop of pick_new_version without its has_tag test
PickLoop_NoTagTest ==
    /\ Running("pick_loop")
    /\ Goto("pre_dist")
    /\ ws' = [ws EXCEPT !.new_version = ws.last_version]
    /\ UNCHANGED <<mode, batch, fnVars, newsVars, cfgR, remote, initTags, trace>>

\* pick_new_version, lines 443-452: one iteration of the loop
PickLoop ==
    /\ Running("pick_loop")
    /\ LET last_version_tag_name == expand_tag(cfg_tag_name, ws.last_version[1])
       IN IF last_version_tag_name \notin ws.tags
          THEN Goto("pre_dist") /\ ws' = [ws EXCEPT !.new_version = ws.last_version]
          ELSE Goto("pick_loop")
                 /\ ws' = [ws EXCEPT !.last_version = Some(increase_version(@[1], -1))]
    /\ UNCHANGED <<mode, batch, fnVars, newsVars, cfgR, remote, initTags, trace>>

\* lines 1180-1204
PreDist ==
    /\ Running("pre_dist")
    /\ \/ Return("PreDistCommandFailed")
       \/ Goto("mark_released")
    /\ UNCHANGED <<mode, batch, fnVars, newsVars, cfgR, ws, remote, initTags, trace>>

\* lines 1209-1219: mark the pending changelog entry released
MarkReleasedStep ==
    /\ Running("mark_released")
    /\ IF ~cfgR.news THEN Goto("update") /\ UNCHANGED <<ws, lines>>
       ELSE LET r == news_mark_released(lines, ws.new_version[1], Now)
            IN CASE r.tag = "Ok" ->
                        /\ Goto("update")
                        /\ lines' = r.lines
                        /\ ws' = [ws EXCEPT !.notes = Some(r.notes)]
                 [] r.tag = "Panic" -> Return("Panic") /\ UNCHANGED <<ws, lines>>
                 [] OTHER -> Return("Other") /\ UNCHANGED <<ws, lines>>
    /\ UNCHANGED <<mode, batch, fnVars, prevLines, arg, argDate, ret, op, nops, cfgR, remote, initTags, trace>>

\* lines 1221-1252: the version strings of the other files
UpdateVersions ==
    /\ Running("update")
    /\ \/ Return("Other")
       \/ Goto("commit")
    /\ UNCHANGED <<mode, batch, fnVars, newsVars, cfgR, ws, remote, initTags, trace>>

\* the release commit pushed to the main branch as soon as it is made
CommitRelease_Pushed ==
    /\ Running("commit")
    /\ Goto("verify")
    /\ ws' = [ws EXCEPT !.commits = Append(@, "Release")]
    /\ remote' = [remote EXCEPT !.branch = Append(ws.commits, "Release")]
    /\ UNCHANGED <<mode, batch, fnVars, newsVars, cfgR, initTags, trace>>

\* lines 1253-1258
CommitRelease ==
    /\ Running("commit")
    /\ \/ Return("CommitFailed") /\ UNCHANGED ws
       \/ Goto("verify") /\ ws' = [ws EXCEPT !.commits = Append(@, "Release")]
    /\ UNCHANGED <<mode, batch, fnVars, newsVars, cfgR, remote, initTags, trace>>

\* lines 1260-1288
Verify ==
    /\ Running("verify")
    /\ \E failed \in BOOLEAN, ignore_verify_command \in BOOLEAN :
          IF failed /\ ~ignore_verify_command THEN Return("VerifyCommandFailed")
          ELSE Goto("check_tag")
    /\ UNCHANGED <<mode, batch, fnVars, newsVars, cfgR, ws, remote, initTags, trace>>

tag_name == expand_tag(cfg_tag_name, ws.new_version[1])

\* the tag check with its early return left out
CheckTag_NoReturn ==
    /\ Running("check_tag")
    /\ Goto("create_tag")
    /\ UNCHANGED <<mode, batch, fnVars, newsVars, cfgR, ws, remote, initTags, trace>>

\* lines 1290-1302
CheckTag ==
    /\ Running("check_tag")
    /\ IF tag_name \in ws.tags THEN Return("ReleaseTagExists") ELSE Goto("create_tag")
    /\ UNCHANGED <<mode, batch, fnVars, newsVars, cfgR, ws, remote, initTags, trace>>

Did(event) == trace' = Append(trace, event)

\* lines 1303-1338: `git tag -as` in the local tree, or set_tag on its tags
CreateTag ==
    /\ Running("create_tag")
    /\ \/ Return("CreateTagFailed") /\ UNCHANGED <<ws, trace>>
       \/ Goto("build") /\ ws' = [ws EXCEPT !.tags = @ \cup {tag_name}] /\ Did("create_tag")
    /\ UNCHANGED <<mode, batch, fnVars, newsVars, cfgR, remote, initTags>>

\* lines 1340-1347: the Python artifacts, when the tree has setup.py or
\* pyproject.toml; dry_run is not consulted
BuildArtifacts ==
    /\ Running("build")
    /\ \/ Goto("push_tag") /\ UNCHANGED <<ws, trace>>
       \/ Goto("push_tag") /\ ws' = [ws EXCEPT !.built = TRUE, !.pypi = TRUE] /\ Did("build")
       \/ Return("Panic") /\ UNCHANGED <<ws, trace>>
    /\ UNCHANGED <<mode, batch, fnVars, newsVars, cfgR, remote, initTags>>

\* lines 1349-1363: ws.push_tags to the main branch
PushTag ==
    /\ Running("push_tag")
    /\ IF cfgR.dry_run THEN Goto("publish") /\ UNCHANGED <<remote, trace>>
       ELSE \/ Return("CreateTagFailed") /\ UNCHANGED <<remote, trace>>
            \/ /\ Goto("publish")
               /\ remote' = [remote EXCEPT !.tags = @ \cup {tag_name}]
               /\ Did("push_tag")
    /\ UNCHANGED <<mode, batch, fnVars, newsVars, cfgR, ws, initTags>>

PublishFails(e) == Goto("publish_failed") /\ ws' = [ws EXCEPT !.publish_error = Some(e)]

\* publish_artifacts, lines 660-671: wait for CI on the tag. Only an Err of
\* wait_for_gh_actions (a timeout, an API error) is propagated; the status it
\* returns is dropped. The project's upload settings are read here.
WaitForCI ==
    /\ Running("publish")
    /\ \E twine \in BOOLEAN, cargo \in BOOLEAN, ntar \in 0..MaxTarballs :
          LET w == [ws EXCEPT !.twine = twine, !.cargo = cargo, !.ntar = ntar]
          IN IF cfgR.gh /\ ~cfgR.dry_run
             THEN \/ PublishFails("CIFailed")
                  \/ \E status \in {"Ok", "Failed"} :
                        Goto("upload_pypi") /\ ws' = [w EXCEPT !.ci_wait = status]
             ELSE Goto("upload_pypi") /\ ws' = w
    /\ UNCHANGED <<mode, batch, fnVars, newsVars, cfgR, remote, initTags, trace>>

\* publish_artifacts, lines 673-688: twine upload
UploadPypi ==
    /\ Running("upload_pypi")
    /\ IF ws.pypi /\ ~cfgR.dry_run /\ ws.twine
       THEN \/ PublishFails("UploadCommandFailed") /\ UNCHANGED <<remote, trace>>
            \/ /\ Goto("upload_cargo")
               /\ remote' = [remote EXCEPT !.registry = @ \cup {<<"pypi", 0>>}]
               /\ Did("upload_pypi")
               /\ UNCHANGED ws
       ELSE Goto("upload_cargo") /\ UNCHANGED <<ws, remote, trace>>
    /\ UNCHANGED <<mode, batch, fnVars, newsVars, cfgR, initTags>>

\* publish_artifacts, lines 689-704: cargo publish. cargo::publish
\* (cargo.rs:59-68) returns Err when the command cannot be spawned or waited
\* for; the ExitStatus that wait() yields is discarded, so a `cargo publish`
\* that exits non-zero is Ok(()) and nothing reaches the registry.
UploadCargo ==
    /\ Running("upload_cargo")
    /\ IF ws.cargo /\ ~cfgR.dry_run
       THEN \/ PublishFails("UploadCommandFailed") /\ UNCHANGED <<remote, trace>>
            \/ /\ Goto("upload_tarball")
               /\ Did("cargo_exit_nonzero")
               /\ UNCHANGED <<ws, remote>>
            \/ /\ Goto("upload_tarball")
               /\ remote' = [remote EXCEPT !.registry = @ \cup {<<"crates.io", 0>>}]
               /\ Did("upload_cargo")
               /\ UNCHANGED ws
       ELSE Goto("upload_tarball") /\ UNCHANGED <<ws, remote, trace>>
    /\ UNCHANGED <<mode, batch, fnVars, newsVars, cfgR, initTags>>

\* publish_artifacts, lines 705-749: scp to each tarball location in turn
UploadTarball ==
    /\ Running("upload_tarball")
    /\ IF ws.ntar = 0
       THEN Goto("push_branch") /\ Did("publish_ok") /\ UNCHANGED <<ws, remote>>
       ELSE IF cfgR.dry_run
            THEN Goto("upload_tarball") /\ ws' = [ws EXCEPT !.ntar = @ - 1]
                   /\ UNCHANGED <<remote, trace>>
       ELSE \/ PublishFails("UploadCommandFailed") /\ UNCHANGED <<remote, trace>>
            \/ /\ Goto("upload_tarball")
               /\ ws' = [ws EXCEPT !.ntar = @ - 1]
               /\ remote' = [remote EXCEPT !.registry = @ \cup {<<"scp", ws.ntar>>}]
               /\ Did("upload_scp")
    /\ UNCHANGED <<mode, batch, fnVars, newsVars, cfgR, initTags>>

\* a publish error that is logged and then ignored
PublishFailed_Ignored ==
    /\ Running("publish_failed")
    /\ Goto("push_branch")
    /\ UNCHANGED <<mode, batch, fnVars, newsVars, cfgR, ws, remote, initTags, trace>>

\* lines 1380-1391: publish_artifacts returned an error. `tags` is the tag
\* dictionary of ws.local_tree().branch() (line 1291).
PublishFailed ==
    /\ Running("publish_failed")
    /\ IF cfgR.dry_run THEN Return("PublishArtifactsFailed") /\ UNCHANGED <<ws, trace>>
       ELSE \/ Return("Other") /\ Did("delete_tag_failed") /\ UNCHANGED ws
            \/ /\ Return("PublishArtifactsFailed")
               /\ ws' = [ws EXCEPT !.tags = @ \ {tag_name}]
               /\ Did("delete_tag")
    /\ UNCHANGED <<mode, batch, fnVars, newsVars, cfgR, remote, initTags>>

\* a branch push whose failure also deletes the release tag
PushBranch_Rollback ==
    /\ Running("push_branch")
    /\ ~cfgR.dry_run
    /\ Return("Other")
    /\ ws' = [ws EXCEPT !.tags = @ \ {tag_name}]
    /\ Did("delete_tag")
    /\ UNCHANGED <<mode, batch, fnVars, newsVars, cfgR, remote, initTags>>

\* lines 1393-1447: push the release commit; a protected branch gets a
\* merge proposal carrying the tag, merged at once when the forge can
PushBranch ==
    /\ Running("push_branch")
    /\ IF cfgR.dry_run THEN Goto("gh_release") /\ UNCHANGED <<remote, trace>>
       ELSE \/ Return("Other") /\ UNCHANGED <<remote, trace>>
            \/ /\ Goto("gh_release")
               /\ remote' = [remote EXCEPT !.branch = ws.commits]
               /\ Did("push_branch")
            \/ /\ Goto("gh_release")
               /\ remote' = [remote EXCEPT !.proposals = @ \cup {tag_name}]
               /\ Did("propose")
            \/ /\ Return("Other")
               /\ remote' = [remote EXCEPT !.proposals = @ \cup {tag_name}]
               /\ Did("propose")
            \/ /\ Goto("gh_release")
               /\ remote' = [remote EXCEPT !.proposals = @ \cup {tag_name},
                                           !.branch = ws.commits]
               /\ trace' = trace \o <<"propose", "merge">>
    /\ UNCHANGED <<mode, batch, fnVars, newsVars, cfgR, ws, initTags>>

\* lines 1449-1463
CreateGithubRelease ==
    /\ Running("gh_release")
    /\ IF cfgR.gh /\ ~cfgR.dry_run
       THEN \/ Return("Other") /\ UNCHANGED <<remote, trace>>
            \/ /\ Goto("lp_release")
               /\ remote' = [remote EXCEPT !.forge = @ \cup {"gh_release"}]
               /\ Did("gh_release")
       ELSE Goto("lp_release") /\ UNCHANGED <<remote, trace>>
    /\ UNCHANGED <<mode, batch, fnVars, newsVars, cfgR, ws, initTags>>

\* lines 1465-1483: ensure_release, then add_release_files
LaunchpadRelease ==
    /\ Running("lp_release")
    /\ IF cfgR.lp /\ ~cfgR.dry_run
       THEN \/ Return("Other") /\ UNCHANGED <<remote, trace>>
            \/ /\ Return("Other")
               /\ remote' = [remote EXCEPT !.forge = @ \cup {"lp_release"}]
               /\ Did("lp_release")
            \/ /\ Goto("next_cycle")
               /\ remote' = [remote EXCEPT !.forge = @ \cup {"lp_release", "lp_files"}]
               /\ Did("lp_release")
       ELSE Goto("next_cycle") /\ UNCHANGED <<remote, trace>>
    /\ UNCHANGED <<mode, batch, fnVars, newsVars, cfgR, ws, initTags>>

new_pending_version == increase_version(ws.new_version[1], -1)

\* lines 1488-1495: the next pending version, and its changelog entry
StartNextCycle ==
    /\ Running("next_cycle")
    /\ IF ~VersionLess(ws.new_version[1], new_pending_version)
       THEN Return("Panic") /\ UNCHANGED lines
       ELSE IF ~cfgR.news THEN Goto("milestone") /\ UNCHANGED lines
       ELSE LET r == news_add_pending(lines, new_pending_version)
            IN CASE r.tag = "Ok" -> Goto("commit_next") /\ lines' = r.lines
                 [] r.tag = "Panic" -> Return("Panic") /\ UNCHANGED lines
                 [] OTHER -> Return("Other") /\ UNCHANGED lines
    /\ UNCHANGED <<mode, batch, fnVars, prevLines, arg, argDate, ret, op, nops, cfgR, ws, remote, initTags, trace>>

\* lines 1496-1500: commit "Start on <pending version>"
CommitNext ==
    /\ Running("commit_next")
    /\ \/ Return("Other") /\ UNCHANGED ws
       \/ Goto("push_next") /\ ws' = [ws EXCEPT !.commits = Append(@, "Start on")]
    /\ UNCHANGED <<mode, batch, fnVars, newsVars, cfgR, remote, initTags, trace>>

\* the push of the "Start on" commit without its dry_run test
PushNext_Ungated ==
    /\ Running("push_next")
    /\ \/ Return("Other") /\ UNCHANGED <<remote, trace>>
       \/ /\ Goto("milestone")
          /\ remote' = [remote EXCEPT !.branch = ws.commits]
          /\ Did("push_next")
    /\ UNCHANGED <<mode, batch, fnVars, newsVars, cfgR, ws, initTags>>

\* lines 1501-1504
PushNext ==
    /\ Running("push_next")
    /\ IF cfgR.dry_run THEN Goto("milestone") /\ UNCHANGED <<remote, trace>>
       ELSE \/ Return("Other") /\ UNCHANGED <<remote, trace>>
            \/ /\ Goto("milestone")
               /\ remote' = [remote EXCEPT !.branch = ws.commits]
               /\ Did("push_next")
    /\ UNCHANGED <<mode, batch, fnVars, newsVars, cfgR, ws, initTags>>

\* lines 1506-1522
CreateMilestone ==
    /\ Running("milestone")
    /\ IF cfgR.lp /\ ~cfgR.dry_run
       THEN \/ Return("Other") /\ UNCHANGED <<remote, trace>>
            \/ /\ Goto("pull")
               /\ remote' = [remote EXCEPT !.forge = @ \cup {"lp_milestone"}]
               /\ Did("milestone")
       ELSE Goto("pull") /\ UNCHANGED <<remote, trace>>
    /\ UNCHANGED <<mode, batch, fnVars, newsVars, cfgR, ws, initTags>>

\* lines 1523-1536: pull into the caller's local branch, then Ok
PullLocal ==
    /\ Running("pull")
    /\ IF cfgR.dry_run THEN Return("Ok") /\ UNCHANGED trace
       ELSE \/ Return("Panic") /\ UNCHANGED trace
            \/ Return("Ok") /\ UNCHANGED trace
            \/ Return("Ok") /\ Did("pull")
    /\ UNCHANGED <<mode, batch, fnVars, newsVars, cfgR, ws, remote, initTags>>

Next ==
    \/ OpenRepository \/ ReadConfig \/ IdentifyForge \/ CheckNewRevisions
    \/ CheckReleaseAge \/ PickVersion \/ PickLoop \/ PreDist \/ MarkReleasedStep
    \/ UpdateVersions \/ CommitRelease \/ Verify \/ CheckTag \/ CreateTag
    \/ BuildArtifacts \/ PushTag \/ WaitForCI \/ UploadPypi \/ UploadCargo
    \/ UploadTarball \/ PublishFailed \/ PushBranch \/ CreateGithubRelease
    \/ LaunchpadRelease \/ StartNextCycle \/ CommitNext \/ PushNext
    \/ CreateMilestone \/ PullLocal

Spec == Init /\ [][Next]_vars

(***************************************************************************)
(* One more attempt after a release (src/main.rs): SpecAgain.              *)
(*                                                                         *)
(* release_project is run again, with the same configuration, on the       *)
(* repository a successful attempt left behind: the remote keeps its tags, *)
(* its branch, its proposals and its uploads, the clone is new.            *)
(***************************************************************************)
Again ==
    /\ mode = "release" /\ pc = "done" /\ outcome = Some("Ok")
    /\ ~cfgR.dry_run
    /\ mode' = "again"
    /\ pc' = "open"
    /\ outcome' = None
    /\ trace' = <<>>
    /\ lines' = IF remote.branch = <<>> THEN ws.cloned ELSE lines
    /\ ws' = Workspace(ws.new_version, lines')
    /\ initTags' = remote.tags
    /\ UNCHANGED <<batch, fnVars, prevLines, arg, argDate, ret, op, nops, cfgR, remote>>

AgainNext == Next \/ Again

SpecAgain == Init /\ [][AgainNext]_vars

(***************************************************************************)
(* release_many and the exit code of main (src/main.rs): SpecMany.         *)
(***************************************************************************)
MaxUrls == 3

\* the ReleaseError variants release_many counts as skipped, and as failed
SkippedOutcomes ==
    {"RecentCommits", "ReleaseTagExists", "NoUnreleasedChanges", "NoDisperseConfig"}
FailedOutcomes ==
    {"VerifyCommandFailed", "PreDistCommandFailed", "UploadCommandFailed",
     "DistCreationFailed", "CIPending", "CIFailed", "RepositoryUnavailable",
     "OddPendingVersion", "NoVersion", "NoSuchTag", "CreateTagFailed", "Other",
     "CommitFailed", "PublishArtifactsFailed", "NoPublicBranch"}
\* what one call of release_project can end in: Ok, an error, or a panic
\* (the unwraps of lines 1342-1344 and 1531, among others)
ReleaseOutcomes == {"Ok", "Panic"} \cup SkippedOutcomes \cup FailedOutcomes

PanicExitCode == 101

\* main, lines 1945-1957 and 2015-2028: `release` passes its --discover flag
\* and has no try mode; `discover` always passes discover = true
Commands ==
    {[cmd |-> "release", discover |-> d, try |-> FALSE] : d \in BOOLEAN}
      \cup {[cmd |-> "discover", discover |-> TRUE, try |-> t] : t \in BOOLEAN}

ManyInit ==
    /\ mode = "many"
    /\ \E c \in Commands, n \in 1..MaxUrls :
          batch = [cmd |-> c.cmd, discover |-> c.discover, try |-> c.try, n |-> n,
                   idx |-> 0, ret |-> 0, success |-> 0, skipped |-> 0, failed |-> 0,
                   exit |-> None]
    /\ lines = <<>>
    /\ FnIdle
    /\ NewsIdle
    /\ RelIdle

\* release_many, lines 1553-1726: one iteration of `for url in urls`
ReleaseOne ==
    /\ mode = "many"
    /\ batch.exit = None
    /\ batch.idx < batch.n
    /\ \E o \in ReleaseOutcomes :
          batch' =
             IF o = "Panic" THEN [batch EXCEPT !.exit = Some(PanicExitCode)]
             ELSE IF o = "Ok"
                  THEN [batch EXCEPT !.idx = @ + 1, !.success = @ + 1]
             ELSE IF o \in SkippedOutcomes
                  THEN [batch EXCEPT !.idx = @ + 1, !.skipped = @ + 1,
                                     !.ret = IF ~batch.discover THEN 1 ELSE @]
             ELSE [batch EXCEPT !.idx = @ + 1, !.failed = @ + 1, !.ret = 1]
    /\ UNCHANGED <<mode, fnVars, newsVars, relVars>>

\* release_many, lines 1727-1730, and main, lines 1945 and 2033-2037: the
\* value release_many returns becomes the exit code, unless --try was given
Exit ==
    /\ mode = "many"
    /\ batch.exit = None
    /\ batch.idx = batch.n
    /\ batch' = [batch EXCEPT
                   !.exit = Some(IF batch.cmd = "discover" /\ batch.try THEN 0
                                 ELSE batch.ret)]
    /\ UNCHANGED <<mode, fnVars, newsVars, relVars>>

ManyNext == ReleaseOne \/ Exit

SpecMany == ManyInit /\ [][ManyNext]_vars

(***************************************************************************)
(* The version library called on its own (src/version.rs): SpecVersion.    *)
(***************************************************************************)
MaxComponent == 2

\* the values a component is drawn from: small ones and the largest i32
ComponentValues == 0..MaxComponent \cup {I32Max}
OptionalComponents == {None} \cup {Some(n) : n \in ComponentValues}
VersionInputs ==
    {Version(M, m, u) : M \in ComponentValues, m \in OptionalComponents,
                        u \in OptionalComponents}
\* 3 stands for any index other than 0, 1, 2 and -1
IndexInputs == {-1, 0, 1, 2, 3}

IncreaseVersionCalls ==
    {[fn |-> "increase_version", version |-> v, idx |-> i, overflow_checks |-> c] :
        v \in VersionInputs, i \in IndexInputs, c \in BOOLEAN}

Calling(fn) == mode = "version" /\ call.fn = fn /\ result = None

\* version texts: up to MaxSegments segments joined by dots
MaxSegments == 3
NumberTokens ==
    {<<"0">>, <<"1">>, <<"1", "2">>, <<"0", "1">>, <<"+", "1">>, <<"-", "1">>, <<"x">>, <<>>}
RECURSIVE VersionTexts(_)
VersionTexts(n) ==
    IF n = 1 THEN NumberTokens
    ELSE VersionTexts(n - 1)
            \cup {t \o <<".">> \o x : t \in VersionTexts(n - 1), x \in NumberTokens}

FromStrCalls == {[fn |-> "from_str", s |-> t] : t \in VersionTexts(MaxSegments)}
ToStringCalls == {[fn |-> "to_string", version |-> v] : v \in VersionInputs}

TagTemplates ==
    {VERSION_VAR, <<"v">> \o VERSION_VAR,
     <<"r", "e", "l", "e", "a", "s", "e", "-">> \o VERSION_VAR,
     <<"v", ".">> \o VERSION_VAR \o <<"-", "1">>}
TagInputs ==
    {<<"1", ".", "2", ".", "3">>, <<"v", "-", "i", "n", "v", "a", "l", "i", "d">>,
     <<"x", "v", "1", ".", "2">>, <<"v", "1", ".", "x">>}
ExpandTagCalls ==
    {[fn |-> "expand_tag", tag_template |-> t, version |-> v] :
        t \in TagTemplates, v \in VersionInputs}
UnexpandTagCalls ==
    {[fn |-> "unexpand_tag", tag_template |-> t, tag |-> g] :
        t \in TagTemplates,
        g \in TagInputs \cup {expand_tag(t2, v) : t2 \in TagTemplates, v \in VersionInputs}}

\* tupled texts: up to MaxParts components joined by commas, in up to
\* MaxParens layers of parentheses
MaxParts == 6
MaxParens == 2
PartsAt(k) ==
    IF k <= 3 THEN {<<"1">>, <<" ", "2", " ">>, <<"x">>, <<>>}
    ELSE IF k = 4
    THEN {<<" ", "\"", "d", "e", "v", "\"">>, <<" ", "'", "f", "i", "n", "a", "l", "'">>,
          <<" ", "d", "e", "v">>, <<" ", "f", "i", "n", "a", "l">>,
          <<" ", "\"", "r", "c", "\"">>}
    ELSE {<<" ", "0">>, <<" ", "x">>}
RECURSIVE PartLists(_)
PartLists(n) ==
    IF n = 0 THEN {<<>>} ELSE {Append(ps, x) : ps \in PartLists(n - 1), x \in PartsAt(n)}
RECURSIVE JoinParts(_)
JoinParts(ps) ==
    IF Len(ps) = 1 THEN ps[1] ELSE ps[1] \o <<",">> \o JoinParts(Tail(ps))
RECURSIVE Parenthesised(_, _)
Parenthesised(text, n) ==
    IF n = 0 THEN text ELSE <<"(">> \o Parenthesised(text, n - 1) \o <<")">>
FromTupledCalls ==
    {[fn |-> "from_tupled", text |-> Parenthesised(JoinParts(ps), k), parts |-> ps] :
        ps \in UNION {PartLists(n) : n \in 1..MaxParts}, k \in 0..MaxParens}

\* Version::from_tupled, lines 57-98
FromTupled ==
    /\ Calling("from_tupled")
    /\ result' = Some(from_tupled(call.text))
    /\ UNCHANGED <<mode, batch, call, newsVars, relVars>>

\* Version::from_str, lines 13-29
FromStr ==
    /\ Calling("from_str")
    /\ result' = Some(from_str(call.s))
    /\ UNCHANGED <<mode, batch, call, newsVars, relVars>>

\* Version::to_string, lines 31-42
VersionToString ==
    /\ Calling("to_string")
    /\ result' = Some(to_string(call.version))
    /\ UNCHANGED <<mode, batch, call, newsVars, relVars>>

\* expand_tag, lines 376-378
ExpandTag ==
    /\ Calling("expand_tag")
    /\ result' = Some(expand_tag(call.tag_template, call.version))
    /\ UNCHANGED <<mode, batch, call, newsVars, relVars>>

\* unexpand_tag, lines 380-395
UnexpandTag ==
    /\ Calling("unexpand_tag")
    /\ result' = Some(unexpand_tag(call.tag_template, call.tag))
    /\ UNCHANGED <<mode, batch, call, newsVars, relVars>>

\* increase_version, lines 397-425
IncreaseVersion ==
    /\ Calling("increase_version")
    /\ result' =
          Some(IF increase_version_panics(call.version, call.idx, call.overflow_checks)
               THEN [tag |-> "Panic"]
               ELSE [tag |-> "Ok", version |-> increase_version(call.version, call.idx)])
    /\ UNCHANGED <<mode, batch, call, newsVars, relVars>>

\* the orders in which the variables are visited: VERSION_VARIABLES is a
\* HashMap with a random hasher, and any of its variables can come first
IterationOrders ==
    {[i \in DOMAIN VERSION_VARIABLES |-> ((i + k - 2) % Len(VERSION_VARIABLES)) + 1] :
        k \in DOMAIN VERSION_VARIABLES}

\* new-line templates and texts
LineTemplates ==
    {<<"v", "=", "$", "V", "E", "R", "S", "I", "O", "N", NL>>,
     <<"t", "=", "$", "T", "U", "P", "L", "E", "D", "_", "V", "E", "R", "S", "I", "O", "N", NL>>,
     <<"s", "=", "$", "S", "T", "A", "T", "U", "S", "_", "T", "U", "P", "L", "E", "D", "_", "V", "E", "R", "S", "I", "O", "N", NL>>,
     <<"v", "=", "$", "M", "A", "J", "O", "R", "_", "V", "E", "R", "S", "I", "O", "N", ".", "$", "M", "I", "N", "O", "R", "_", "V", "E", "R", "S", "I", "O", "N", NL>>,
     <<"v", "=", "$", "M", "I", "C", "R", "O", "_", "V", "E", "R", "S", "I", "O", "N", NL>>,
     <<"$", "V", "E", "R", "S", "I", "O", "N", " ", "$", "V", "E", "R", "S", "I", "O", "N", NL>>,
     <<"v", "=", "$", "V", "E", "R", "S", "I", "O", "N", "_", "I", "N", "F", "O", " ", "$", "F", "O", "O", NL>>}
CustomVersions ==
    {Version(1, Some(2), Some(3)), Version(1, Some(2), None), Version(1, None, None)}
ExpandVersionVarsCalls ==
    {[fn |-> "expand_version_vars", text |-> t, new_version |-> v, status |-> st, order |-> o] :
        t \in LineTemplates \cup {<<"p", "l", "a", "i", "n", NL>>}, v \in CustomVersions,
        st \in {"Final", "Dev"}, o \in IterationOrders}

\* files of up to MaxFileLines lines
MaxFileLines == 2
FileLines == {<<"v", "=", "1", NL>>, <<"x", "v", "=", "1", ".", "2", NL>>, <<"o", "t", "h", "e", "r", NL>>, BadLine}
RECURSIVE FilesOf(_)
FilesOf(n) ==
    IF n = 0 THEN {<<>>}
    ELSE FilesOf(n - 1) \cup {Append(f, l) : f \in FilesOf(n - 1), l \in FileLines}
UpdateVersionInFileCalls ==
    {[fn |-> "update_version_in_file", file |-> f, new_line |-> t, match |-> m,
      new_version |-> v, status |-> st, order |-> o] :
        f \in FilesOf(MaxFileLines), t \in LineTemplates,
        m \in {None, Some(<<"v", "=", ".", "*">>), Some(<<"o">>)},
        v \in CustomVersions, st \in {"Final", "Dev"}, o \in IterationOrders}

\* expand_version_vars (src/custom.rs), lines 56-71
ExpandVersionVars ==
    /\ Calling("expand_version_vars")
    /\ result' = Some(expand_version_vars(call.text, call.new_version, call.status, call.order))
    /\ UNCHANGED <<mode, batch, call, newsVars, relVars>>

\* update_version_in_file (src/custom.rs), lines 237-274
UpdateVersionInFile ==
    /\ Calling("update_version_in_file")
    /\ result' = Some(update_version_in_file(call.file, call.new_line, call.match,
                                             call.new_version, call.status, call.order))
    /\ UNCHANGED <<mode, batch, call, newsVars, relVars>>

\* find_pending_version (src/lib.rs), lines 229-248
FindPendingVersionCalls ==
    {[fn |-> "find_pending_version", news_file |-> n, lines |-> ls] :
        n \in BOOLEAN, ls \in NewsFiles}
FindPendingVersion ==
    /\ Calling("find_pending_version")
    /\ result' = Some(find_pending_version(call.news_file, call.lines))
    /\ UNCHANGED <<mode, batch, call, newsVars, relVars>>

\* parse_version_line (src/news_file.rs), lines 90-162, on entry headers with
\* and without blanks around them
ParseVersionLineCalls ==
    {[fn |-> "parse_version_line", line |-> l] :
        l \in EntryHeaders \cup {<<" ">> \o h : h \in EntryHeaders} \cup {<<NL>>}}
ParseVersionLine ==
    /\ Calling("parse_version_line")
    /\ result' = Some(parse_version_line(call.line))
    /\ UNCHANGED <<mode, batch, call, newsVars, relVars>>

(***************************************************************************)
(* The last released version (src/lib.rs, src/main.rs).                    *)
(*                                                                         *)
(* A tree is described by what its version files hold: `cargo` and         *)
(* `pyproject` say whether the manifest exists and what reading its        *)
(* version gives, `custom` the same for the first update_version file.     *)
(* A branch is its left-hand ancestry, tip first, each revision with the   *)
(* set of tags that point at it, and whether its tag dictionary can be     *)
(* read.                                                                   *)
(***************************************************************************)
FileVersion == Version(1, Some(2), Some(4))
Found(v, status) == [tag |-> "Ok", v |-> v, status |-> status]

\* find_last_version_in_files, lib.rs:155-198
find_last_version_in_files(tree) ==
    IF tree.cargo # "absent"
    THEN IF tree.cargo = "version" THEN Found(Some(FileVersion), None) ELSE [tag |-> "Err"]
    ELSE IF tree.pyproject = "invalid" THEN [tag |-> "Err"]
    ELSE IF tree.pyproject = "static" THEN Found(Some(FileVersion), None)
    ELSE IF tree.pyproject = "hatch_vcs" THEN Found(Some(FileVersion), None)
    ELSE IF tree.pyproject = "hatch_vcs_unknown" THEN [tag |-> "Panic"]
    ELSE CASE tree.custom = "missing" -> [tag |-> "Panic"]
           [] tree.custom = "version" -> Found(Some(FileVersion), None)
           [] OTHER -> Found(None, None)

\* find_last_version_in_tags, lib.rs:123-153. The revisions are numbered
\* from the tip (1); the first tag of the nearest tagged revision that the
\* template reads decides.
find_last_version_in_tags(branch, tag_template) ==
    IF branch.tags_error THEN [tag |-> "Err"]
    ELSE LET tagged == {i \in DOMAIN branch.ancestry : branch.ancestry[i] # {}}
         IN IF tagged = {} THEN [tag |-> "Panic"]
            ELSE LET revid == CHOOSE i \in tagged : \A j \in tagged : i <= j
                     read == {t \in branch.ancestry[revid] :
                                 unexpand_tag(tag_template, t).tag # "Err"}
                 IN IF read = {} THEN Found(None, None)
                    ELSE LET release == unexpand_tag(tag_template, CHOOSE t \in read : TRUE)
                         IN IF release.tag = "Panic" THEN [tag |-> "Panic"]
                            ELSE Found(Some(release.v),
                                       Some(IF revid = 1 THEN "Final" ELSE "Dev"))

\* find_last_version, main.rs:221-252
find_last_version(tree, branch, tag_template) ==
    LET f == find_last_version_in_files(tree)
    IN IF f.tag = "Panic" THEN f
       ELSE IF f.tag = "Ok" /\ f.v # None THEN f
       ELSE IF tag_template = None THEN Found(None, None)
       ELSE LET t == find_last_version_in_tags(branch, tag_template[1])
            IN IF t.tag = "Panic" THEN t
               ELSE IF t.tag = "Ok" /\ t.v # None THEN t
               ELSE Found(None, None)

ReleaseTag == expand_tag(cfg_tag_name, Version(1, Some(2), Some(3)))
RevisionTags == {{}, {ReleaseTag}, {Str_foo}, {Str_foo, ReleaseTag}}
Ancestries == UNION {[1..n -> RevisionTags] : n \in 1..MaxRevisions}
Trees ==
    [cargo : {"absent", "version", "invalid"},
     pyproject : {"absent", "static", "invalid", "no_version", "hatch_vcs", "hatch_vcs_unknown"},
     custom : {"none", "missing", "version", "no_version"}]
FindLastVersionCalls ==
    {[fn |-> "find_last_version", tree |-> t,
      branch |-> [ancestry |-> a, tags_error |-> e], tag_name |-> n] :
        t \in Trees, a \in Ancestries, e \in BOOLEAN, n \in {None, Some(cfg_tag_name)}}

\* find_last_version, main.rs:221-252
FindLastVersion ==
    /\ Calling("find_last_version")
    /\ result' = Some(find_last_version(call.tree, call.branch, call.tag_name))
    /\ UNCHANGED <<mode, batch, call, newsVars, relVars>>

(***************************************************************************)
(* Waiting for the CI of the release tag (src/github.rs).                  *)
(*                                                                         *)
(* The check runs of the commit stay Pending for `pending` polls and then  *)
(* show `final`; the request of poll number `error_at` fails (0: none      *)
(* does). The clock advances by the sleeps only, in seconds.               *)
(***************************************************************************)
DEFAULT_GITHUB_CI_TIMEOUT == 60 * 24
POLL_INTERVAL == 30

RECURSIVE wait_for_gh_actions_loop(_, _, _)
\* the while loop of wait_for_gh_actions, lines 185-207, at `elapsed` seconds
\* whose bound reads the timeout as seconds
wait_for_gh_actions_loop(elapsed, timeout, c) ==
    LET poll == elapsed \div POLL_INTERVAL + 1
    IN IF ~(elapsed < timeout) THEN [tag |-> "TimedOut", elapsed |-> elapsed]
       ELSE IF poll = c.error_at THEN [tag |-> "Err", elapsed |-> elapsed]
       ELSE IF poll > c.pending THEN [tag |-> c.final, elapsed |-> elapsed]
       ELSE wait_for_gh_actions_loop(elapsed + POLL_INTERVAL, timeout, c)

\* wait_for_gh_actions, lines 167-211: start_time.elapsed().as_secs() is
\* compared with the timeout as it is configured
wait_for_gh_actions(timeout, c) ==
    wait_for_gh_actions_loop(0, IF timeout = None THEN DEFAULT_GITHUB_CI_TIMEOUT
                                ELSE timeout[1], c)

MaxPending == 3
MaxTimeout == 2
\* a few polls, and as many as the default timeout has room for
PendingPolls == 0..MaxPending \cup {DEFAULT_GITHUB_CI_TIMEOUT \div POLL_INTERVAL}
WaitForGhActionsCalls ==
    {[fn |-> "wait_for_gh_actions", timeout |-> t, pending |-> k, final |-> f,
      error_at |-> e] :
        t \in {None} \cup {Some(m) : m \in 0..MaxTimeout}, k \in PendingPolls,
        f \in {"Ok", "Failed"}, e \in 0..2}

\* wait_for_gh_actions, lines 167-211
WaitForGhActions ==
    /\ Calling("wait_for_gh_actions")
    /\ result' = Some(wait_for_gh_actions(call.timeout, call))
    /\ UNCHANGED <<mode, batch, call, newsVars, relVars>>

\* release_project, lines 1156-1168
ReleaseAgeGate ==
    /\ Calling("release_age_gate")
    /\ result' = Some(release_age_gate(call))
    /\ UNCHANGED <<mode, batch, call, newsVars, relVars>>

(***************************************************************************)
(* The version of pyproject.toml (src/python.rs).                          *)
(*                                                                         *)
(* The file of the tree is "missing", "invalid" (not UTF-8 or not TOML) or *)
(* "parsed", a document: whether it has a [project] table, whether the     *)
(* table lists "version" in `dynamic`, and the text of its `version` key.  *)
(***************************************************************************)
PyprojectDocuments ==
    {[state |-> "parsed", project |-> FALSE, dynamic |-> FALSE, version |-> None]}
        \cup [state : {"parsed"}, project : {TRUE}, dynamic : BOOLEAN,
              version : {None, Some(<<"1", ".", "2", ".", "3">>), Some(<<"1", ".", "x">>)}]
PyprojectFiles ==
    {[state |-> s, project |-> FALSE, dynamic |-> FALSE, version |-> None] :
        s \in {"missing", "invalid"}} \cup PyprojectDocuments

\* update_version_in_pyproject_toml, python.rs:46-77: the parsed document is
\* changed in memory and dropped; nothing is written to the tree
update_version_in_pyproject_toml(tree, new_version) ==
    IF tree.state # "parsed" THEN [tag |-> "Err", tree |-> tree]
    ELSE IF tree.project /\ tree.dynamic THEN [tag |-> "Ok", val |-> FALSE, tree |-> tree]
    ELSE IF tree.project /\ tree.version = None
    THEN [tag |-> "Ok", val |-> FALSE, tree |-> tree]
    ELSE [tag |-> "Ok", val |-> TRUE, tree |-> tree]

\* find_version_in_pyproject_toml, python.rs:79-95
find_version_in_pyproject_toml(tree) ==
    IF tree.state # "parsed" THEN [tag |-> "Err"]
    ELSE IF ~tree.project \/ tree.version = None THEN [tag |-> "Ok", v |-> None]
    ELSE LET r == from_str(tree.version[1])
         IN IF r.tag = "Ok" THEN [tag |-> "Ok", v |-> Some(r.v)] ELSE r

UpdatePyprojectCalls ==
    {[fn |-> "update_version_in_pyproject_toml", tree |-> t, new_version |-> v] :
        t \in PyprojectFiles, v \in CustomVersions}

\* update_version_in_pyproject_toml, python.rs:46-77
UpdateVersionInPyprojectToml ==
    /\ Calling("update_version_in_pyproject_toml")
    /\ result' = Some(update_version_in_pyproject_toml(call.tree, call.new_version))
    /\ UNCHANGED <<mode, batch, call, newsVars, relVars>>

\* reverse_version (src/custom.rs), lines 197-207: templates and lines as
\* find_last_version_in_files passes them, without line terminators
ReverseTemplates ==
    {<<"v", "=", "$", "V", "E", "R", "S", "I", "O", "N">>,
     <<"s", "=", "$", "S", "T", "A", "T", "U", "S", "_", "T", "U", "P", "L", "E", "D", "_", "V", "E", "R", "S", "I", "O", "N">>,
     <<"v", "=", "$", "M", "A", "J", "O", "R", "_", "V", "E", "R", "S", "I", "O", "N", ".", "$", "M", "I", "N", "O", "R", "_", "V", "E", "R", "S", "I", "O", "N">>,
     <<"$", "V", "E", "R", "S", "I", "O", "N", " ", "$", "V", "E", "R", "S", "I", "O", "N">>}
ReverseLines ==
    {<<"v", "=", "1", ".", "2">>, <<"v", "=", "1", ".", "2", ".", "3">>, <<"v", "=", "x">>,
     <<"x", "v", "=", "2">>, <<"o", "t", "h", "e", "r">>,
     <<"s", "=", "(", "1", ",", " ", "2", ",", " ", "3", ",", " ", "\"", "d", "e", "v", "\"", ",", " ", "0", ")">>}
RECURSIVE ReverseFiles(_)
ReverseFiles(n) ==
    IF n = 0 THEN {<<>>}
    ELSE ReverseFiles(n - 1) \cup {Append(f, l) : f \in ReverseFiles(n - 1), l \in ReverseLines}
ReverseVersionCalls ==
    {[fn |-> "reverse_version", new_line |-> t, lines |-> f] :
        t \in ReverseTemplates, f \in ReverseFiles(MaxFileLines)}

ReverseVersion ==
    /\ Calling("reverse_version")
    /\ result' = Some(reverse_version(call.new_line, call.lines))
    /\ UNCHANGED <<mode, batch, call, newsVars, relVars>>

\* update_version_in_file without an explicit match, then the version read
\* back from the file it wrote (src/custom.rs lines 237-274, src/lib.rs
\* lines 177-196), for a template with and without its line terminator
RoundTripTemplates ==
    {<<"v", "=", "$", "V", "E", "R", "S", "I", "O", "N", NL>>,
     <<"v", "=", "$", "V", "E", "R", "S", "I", "O", "N">>}
RoundTripCalls ==
    {[fn |-> "round_trip", file |-> f, new_line |-> t, new_version |-> v, status |-> st,
      order |-> o] :
        f \in FilesOf(MaxFileLines), t \in RoundTripTemplates,
        v \in CustomVersions, st \in {"Final", "Dev"}, o \in IterationOrders}
RoundTrip ==
    /\ Calling("round_trip")
    /\ LET updated == update_version_in_file(call.file, call.new_line, None,
                                              call.new_version, call.status, call.order)
       IN result' = Some([updated |-> updated,
                          read |-> IF updated.tag = "Ok"
                                   THEN read_version_back(call.new_line, updated.file)
                                   ELSE [tag |-> "None"]])
    /\ UNCHANGED <<mode, batch, call, newsVars, relVars>>

\* The loop of pick_new_version (src/main.rs), lines 443-452, on its own:
\* the version find_last_version reported, the tags of the branch, the
\* tag_name of the configuration and the build (`+= 1` with or without
\* overflow checks). One step is one iteration: a lookup of the tag of
\* last_version, then the break or increase_version(last_version, -1).
MaxLookups == 5
PickTagTemplates == {cfg_tag_name, <<"l", "a", "t", "e", "s", "t">>}
PickTags ==
    {expand_tag(cfg_tag_name, Version(1, Some(2), Some(3))),
     expand_tag(cfg_tag_name, Version(1, Some(2), Some(4))),
     expand_tag(cfg_tag_name, Version(1, Some(2), Some(I32Max))),
     <<"l", "a", "t", "e", "s", "t">>}
PickNewVersionCalls ==
    {[fn |-> "pick_new_version", last_version |-> v, tags |-> tags, tag_template |-> t,
      overflow_checks |-> c] :
        v \in {Version(1, Some(2), Some(3)), Version(1, Some(2), None),
                Version(1, Some(2), Some(I32Max))},
        tags \in SUBSET PickTags, t \in PickTagTemplates, c \in BOOLEAN}
PickNewVersionLoop ==
    /\ mode = "version" /\ call.fn = "pick_new_version"
    /\ IF result = None THEN TRUE ELSE result[1].tag = "Loop"
    /\ LET last_version == IF result = None THEN call.last_version ELSE result[1].last_version
           lookups == IF result = None THEN 0 ELSE result[1].lookups
           last_version_tag_name == expand_tag(call.tag_template, last_version)
       IN /\ lookups < MaxLookups
          /\ result' = Some([tag |-> IF last_version_tag_name \notin call.tags THEN "Ok"
                                     ELSE IF increase_version_panics(last_version, -1,
                                                                     call.overflow_checks)
                                          THEN "Panic"
                                     ELSE "Loop",
                             last_version |-> IF last_version_tag_name \in call.tags
                                                 /\ ~increase_version_panics(last_version, -1,
                                                                             call.overflow_checks)
                                              THEN increase_version(last_version, -1)
                                              ELSE last_version,
                             lookups |-> lookups + 1])
    /\ UNCHANGED <<mode, batch, call, newsVars, relVars>>

VersionCalls ==
    FromStrCalls \cup ToStringCalls \cup FromTupledCalls \cup ExpandTagCalls
        \cup UnexpandTagCalls \cup IncreaseVersionCalls
        \cup ExpandVersionVarsCalls \cup UpdateVersionInFileCalls
        \cup FindPendingVersionCalls \cup ParseVersionLineCalls
        \cup FindLastVersionCalls \cup WaitForGhActionsCalls \cup ReleaseAgeCalls
        \cup UpdatePyprojectCalls \cup ReverseVersionCalls \cup RoundTripCalls
        \cup PickNewVersionCalls

VersionInit ==
    /\ mode = "version"
    /\ batch = <<>>
    /\ call \in VersionCalls
    /\ result = None
    /\ lines = <<>>
    /\ NewsIdle
    /\ RelIdle

VersionNext ==
    \/ RoundTrip
    \/ PickNewVersionLoop
    \/ FromStr
    \/ VersionToString
    \/ FromTupled
    \/ ExpandTag
    \/ UnexpandTag
    \/ IncreaseVersion
    \/ ExpandVersionVars
    \/ UpdateVersionInFile
    \/ FindPendingVersion
    \/ ParseVersionLine
    \/ FindLastVersion
    \/ WaitForGhActions
    \/ ReleaseAgeGate
    \/ UpdateVersionInPyprojectToml
    \/ ReverseVersion

SpecVersion == VersionInit /\ [][VersionNext]_vars

(***************************************************************************)
(* Claims about one release attempt (Spec).                                *)
(***************************************************************************)
Events == {trace[i] : i \in DOMAIN trace}
Happened(event) == mode = "release" /\ event \in Events
Uploads == {"upload_pypi", "upload_cargo", "upload_scp"}
Ended(e) == mode = "release" /\ outcome = Some(e)
RemoteUnchanged ==
    remote = [tags |-> initTags, branch |-> <<>>, proposals |-> {}, registry |-> {},
              forge |-> {}]

\* C1: with dry-run off, when the tag has been pushed and publish_artifacts
\* then fails, the tag is deleted from the remote tag namespace before
\* PublishArtifactsFailed is returned: no attempt ends in
\* PublishArtifactsFailed with the release tag still on the remote.
C1_RemoteTagRolledBack ==
    (Ended("PublishArtifactsFailed") /\ ~cfgR.dry_run /\ Happened("push_tag"))
        => tag_name \notin remote.tags

\* C2: if the expanded tag name already exists in the branch's tag
\* namespace, the tag check ends the attempt in ReleaseTagExists, and no
\* artifact build, tag creation, tag push, upload, branch push or forge
\* release runs in an attempt whose tag exists.
C2_ReleaseTagExists ==
    /\ []((mode = "release" /\ ws.new_version # None /\ tag_name \in initTags)
            => (trace = <<>> /\ RemoteUnchanged))
    /\ [][(Running("check_tag") /\ tag_name \in ws.tags)
            => (outcome' = Some("ReleaseTagExists") /\ trace' = <<>> /\ remote' = remote)]_vars

C2_Witness == Ended("ReleaseTagExists") /\ tag_name \in initTags /\ ws.commits # <<>>

\* C3: the tag push comes before any registry or tarball upload, and the
\* release commit is pushed (or proposed as a merge) only after
\* publish_artifacts has succeeded, never before it and never without it.
C3_TagThenPublishThenBranch ==
    mode = "release" =>
        \A i \in DOMAIN trace :
            /\ trace[i] \in Uploads => \E j \in 1..(i - 1) : trace[j] = "push_tag"
            /\ trace[i] \in {"push_branch", "propose"} =>
                  /\ \E j \in 1..(i - 1) : trace[j] = "publish_ok"
                  /\ ws.publish_error = None
                  /\ \A j \in (i + 1)..Len(trace) : trace[j] \notin Uploads \cup {"push_tag"}

C3_Witness ==
    /\ ~cfgR.dry_run
    /\ Happened("push_branch")
    /\ Happened("upload_cargo")
    /\ Happened("upload_scp")

\* a call of delete_tag, whether it succeeded or returned an error
Deletions == {"delete_tag", "delete_tag_failed"}
FailedAfterTagPush ==
    /\ mode = "release"
    /\ ~cfgR.dry_run
    /\ "push_tag" \in Events
    /\ outcome # None
    /\ outcome # Some("Ok")

PrePushFailures ==
    {"RepositoryUnavailable", "NoPublicBranch", "NoDisperseConfig", "CIFailed",
     "CIPending", "NoUnreleasedChanges", "RecentCommits", "PreDistCommandFailed",
     "CommitFailed", "VerifyCommandFailed", "ReleaseTagExists", "CreateTagFailed"}

\* C5: the tag push is the first remote mutation of an attempt and comes
\* only after the tag check passed; every failure before it returns with the
\* remote branch, the remote tags, the registries and the forge unchanged.
C5_TagPushFirstRemoteMutation ==
    mode = "release" =>
        /\ "push_tag" \notin Events => RemoteUnchanged
        /\ "push_tag" \in Events => (trace[1] = "create_tag" /\ tag_name \notin initTags)
        /\ (outcome # None /\ outcome[1] \in PrePushFailures) => RemoteUnchanged

C5_Witness ==
    /\ Ended("CreateTagFailed")
    /\ ~cfgR.dry_run
    /\ Happened("create_tag")
    /\ ws.commits # <<>>

\* increase_version(-1) applied k times
RECURSIVE Increased(_, _)
Increased(v, k) == IF k = 0 THEN v ELSE Increased(increase_version(v, -1), k - 1)

\* C6: on NotFound, pick_new_version starts from find_last_version's result
\* and applies increase_version(-1) until the expanded tag name is absent
\* from the tag namespace; the version it returns never expands to an
\* existing tag.
C6_PickedVersionIsUntagged ==
    (mode = "release" /\ ws.found_version # None /\ ws.new_version # None) =>
        \E k \in 0..(MaxTagged + 1) :
            /\ ws.new_version[1] = Increased(ws.found_version[1], k)
            /\ \A j \in 0..(k - 1) :
                  expand_tag(cfg_tag_name, Increased(ws.found_version[1], j)) \in initTags
            /\ expand_tag(cfg_tag_name, ws.new_version[1]) \notin initTags

C6_Witness ==
    /\ mode = "release"
    /\ pc = "pre_dist"
    /\ ws.found_version = Some(Version(1, Some(2), Some(3)))
    /\ ws.new_version = Some(Version(1, Some(2), Some(5)))

(***************************************************************************)
(* Claims about release_many (SpecMany).                                   *)
(***************************************************************************)
\* C7: release_many processes every URL whatever the earlier outcomes, the
\* exit code is nonzero only when a project failed (skipped projects alone
\* never make it nonzero), and in try mode the exit code is 0.
C7_BatchExitCode ==
    (mode = "many" /\ batch.exit # None) =>
        /\ batch.idx = batch.n
        /\ batch.exit # Some(0) => batch.failed > 0
        /\ batch.try => batch.exit = Some(0)

(***************************************************************************)
(* Claims about the changelog file model.                                  *)
(***************************************************************************)
\* the header of the first entry of the file the last operation was applied to
FirstEntryBefore == parse_version_line(prevLines[skip_header(prevLines) + 1])
HasEntryBefore == skip_header(prevLines) < Len(prevLines)
AddPendingOk == op = "add_pending" /\ ret.tag = "Ok"

\* C8: after add_pending(lines, v) succeeds, find_pending on the resulting
\* lines returns Some(v), in every header layout.
C8_AddPendingThenFindPending ==
    AddPendingOk => news_find_pending(lines) = [tag |-> "Ok", val |-> Some(to_string(arg[1]))]

\* the header add_pending is to write for a first entry `old`: the new version
\* and UNRELEASED, laid out as the old header is
ExpectedPendingHeader(old, v) ==
    LET line == Trim(old)
        rest == SubSeq(line, FirstIndex(line, " ") + 1, Len(line))
    IN IF ContainsChar(line, TAB) THEN to_string(v) \o <<TAB>> \o UNRELEASED \o <<NL>>
       ELSE IF ~ContainsChar(line, " ") THEN to_string(v) \o <<NL>>
       ELSE IF Head(rest) = "(" /\ rest[Len(rest)] = ")"
            THEN to_string(v) \o <<" ", "(">> \o UNRELEASED \o <<")", NL>>
       ELSE to_string(v) \o <<" ">> \o UNRELEASED \o <<NL>>

\* C9: on success add_pending inserts exactly two lines immediately before
\* the existing first entry, the new header (the entry's layout with the new
\* version and UNRELEASED) and a blank line, and leaves every other line as
\* it was and in the same order.
C9_AddPendingInsertsTwoLines ==
    AddPendingOk =>
        LET i == skip_header(prevLines)
        IN /\ Len(lines) = Len(prevLines) + 2
           /\ SubSeq(lines, 1, i) = SubSeq(prevLines, 1, i)
           /\ lines[i + 1] = ExpectedPendingHeader(prevLines[i + 1], arg[1])
           /\ lines[i + 2] = <<NL>>
           /\ SubSeq(lines, i + 3, Len(lines)) = SubSeq(prevLines, i + 1, Len(prevLines))

C9_Witness ==
    /\ AddPendingOk
    /\ skip_header(prevLines) = 1
    /\ FirstEntryBefore.template = ParenTemplate
    /\ Len(prevLines) > 3
    /\ arg[1] = Version(1, Some(2), Some(4))

\* C10: if the first entry is already pending, by its date or by its
\* version, add_pending returns PendingExists and leaves the lines unchanged.
C10_PendingExists ==
    (op = "add_pending" /\ HasEntryBefore /\ FirstEntryBefore.tag = "Ok"
        /\ FirstEntryBefore.pending)
        => (ret.tag = "PendingExists" /\ lines = prevLines)

MarkReleasedOk == op = "mark_released" /\ ret.tag = "Ok"

\* the tokens of a header line as the changelog format lays them out: the
\* version is the text before the first tab, else before the first space,
\* else the whole line; the date is the rest, without its parentheses
HeaderSeparator(raw) ==
    IF ContainsChar(Trim(raw), TAB) THEN TAB
    ELSE IF ContainsChar(Trim(raw), " ") THEN " " ELSE ""
VersionToken(raw) ==
    IF HeaderSeparator(raw) = "" THEN Trim(raw)
    ELSE SubSeq(Trim(raw), 1, FirstIndex(Trim(raw), HeaderSeparator(raw)) - 1)
DateField(raw) ==
    IF HeaderSeparator(raw) = "" THEN <<>>
    ELSE SubSeq(Trim(raw), FirstIndex(Trim(raw), HeaderSeparator(raw)) + 1, Len(Trim(raw)))
HasParens(raw) ==
    /\ HeaderSeparator(raw) = " "
    /\ DateField(raw) # <<>>
    /\ Head(DateField(raw)) = "("
    /\ DateField(raw)[Len(DateField(raw))] = ")"
DateToken(raw) ==
    IF HasParens(raw) THEN SubSeq(DateField(raw), 2, Len(DateField(raw)) - 1)
    ELSE DateField(raw)
VersionIsPlaceholder(raw) == VersionToken(raw) \in {UNRELEASED, NEXT, VersionVar}
DateIsPlaceholder(raw) ==
    /\ HeaderSeparator(raw) # ""
    /\ \/ DateToken(raw) \in {UNRELEASED, NEXT, DateVar}
       \/ StartsWith(DateToken(raw), NEXT \o <<" ">>)
EntryIsPending(raw) == VersionIsPlaceholder(raw) \/ DateIsPlaceholder(raw)
\* a header the parser accepts: its version is a placeholder or digits and dots
WellFormedHeader(raw) ==
    /\ IsUtf8(raw)
    /\ VersionToken(raw) # <<>>
    /\ \/ VersionIsPlaceholder(raw)
       \/ \A k \in 1..Len(VersionToken(raw)) :
             VersionToken(raw)[k] \in {"0", "1", "2", "3", "4", "5", "6", "7", "8", "9", "."}

\* a date [y, m, d] written YYYY-MM-DD
TwoDigits(n) == <<DigitChars[(n \div 10) + 1], DigitChars[(n % 10) + 1]>>
IsoDate(d) ==
    TwoDigits(d.y \div 100) \o TwoDigits(d.y % 100) \o <<"-">> \o TwoDigits(d.m)
        \o <<"-">> \o TwoDigits(d.d)

\* the header mark_released is to write over a pending header `old`
ExpectedReleasedHeader(old, v, d) ==
    IF HeaderSeparator(old) = TAB THEN to_string(v) \o <<TAB>> \o IsoDate(d) \o <<NL>>
    ELSE IF HeaderSeparator(old) = "" THEN to_string(v) \o <<NL>>
    ELSE IF HasParens(old) THEN to_string(v) \o <<" ", "(">> \o IsoDate(d) \o <<")", NL>>
    ELSE to_string(v) \o <<" ">> \o IsoDate(d) \o <<NL>>

IsChangeLine(line) == Trim(line) = <<>> \/ Head(line) = " " \/ Head(line) = TAB

\* the leading lines of ls that are blank or indented, concatenated
RECURSIVE LeadingChangeText(_)
LeadingChangeText(ls) ==
    IF ls = <<>> \/ ~IsChangeLine(Head(ls)) THEN <<>>
    ELSE Head(ls) \o LeadingChangeText(Tail(ls))

\* the same, with the lines that are not UTF-8 taken out first
RECURSIVE WithoutInvalidLines(_)
WithoutInvalidLines(ls) ==
    IF ls = <<>> THEN <<>>
    ELSE (IF IsUtf8(Head(ls)) THEN <<Head(ls)>> ELSE <<>>) \o WithoutInvalidLines(Tail(ls))

\* mark_released rewrote the header line only
HeaderRewritten ==
    LET i == skip_header(prevLines)
    IN /\ EntryIsPending(prevLines[i + 1])
       /\ Len(lines) = Len(prevLines)
       /\ \A k \in 1..Len(lines) : k # i + 1 => lines[k] = prevLines[k]
       /\ lines[i + 1] = ExpectedReleasedHeader(prevLines[i + 1], arg[1], argDate[1])

LinesAfterHeader == SubSeq(prevLines, skip_header(prevLines) + 2, Len(prevLines))

Returned(fn) == mode = "version" /\ call.fn = fn /\ result # None

\* C16: for every version v and every index i in {-1, 0, 1, 2},
\* increase_version(v, i) produces a version strictly greater than v
C16_IncreaseVersionIsGreater ==
    (Returned("increase_version") /\ call.idx \in {-1, 0, 1, 2})
        => /\ result[1].tag = "Ok"
           /\ VersionLess(call.version, result[1].version)

\* the component index the claim says i selects
SelectedIndex(v, i) ==
    IF i # -1 THEN i
    ELSE IF v.micro # None THEN 2
    ELSE IF v.minor # None THEN 1
    ELSE 0

\* new is old plus one, or 1 when old is absent
IsPlusOne(old, new) ==
    IF old = None THEN new = Some(1)
    ELSE new # None /\ new[1] > old[1] /\ new[1] - old[1] = 1

\* w is the version the claim describes: the selected component plus one (1
\* when it is absent), every other component as it was
SelectedPlusOne(v, i, w) ==
    LET k == SelectedIndex(v, i)
    IN /\ IF k = 0 THEN IsPlusOne(Some(v.major), Some(w.major)) ELSE w.major = v.major
       /\ IF k = 1 THEN IsPlusOne(v.minor, w.minor) ELSE w.minor = v.minor
       /\ IF k = 2 THEN IsPlusOne(v.micro, w.micro) ELSE w.micro = v.micro

\* C20: increase_version(v, i) changes only the selected component: it adds 1
\* to it (or sets it to 1 when absent), i = -1 selecting micro, else minor,
\* else major; the other components keep their values; any other index is a
\* fatal error
C20_IncreaseVersionChangesSelected ==
    Returned("increase_version")
        => IF call.idx \in {-1, 0, 1, 2}
           THEN /\ result[1].tag = "Ok"
                /\ SelectedPlusOne(call.version, call.idx, result[1].version)
           ELSE result[1].tag = "Panic"

\* a number as the claim writes it, "N": one or more decimal digits
IsNumberText(t) == t # <<>> /\ \A i \in 1..Len(t) : IsDigit(t[i])

\* a text of the form "N", "N.N" or "N.N.N"
IsVersionText(s) ==
    LET parts == Split(s, ".")
    IN Len(parts) \in 1..3 /\ \A k \in 1..Len(parts) : IsNumberText(parts[k])

\* C17: for every valid version string s of the form "N", "N.N" or "N.N.N",
\* formatting the parsed version gives back s
C17_FormatOfParsedIsText ==
    (Returned("from_str") /\ IsVersionText(call.s))
        => /\ result[1].tag = "Ok"
           /\ to_string(result[1].v) = call.s

\* C18: for every tag template containing exactly one $VERSION and every
\* version v, unexpand_tag(template, expand_tag(template, v)) returns v
C18_UnexpandOfExpandedTag ==
    Returned("unexpand_tag")
        => \A v \in VersionInputs :
              call.tag = expand_tag(call.tag_template, v)
                  => result[1] = [tag |-> "Ok", v |-> v]

Str_dev == <<"d", "e", "v">>
Str_final == <<"f", "i", "n", "a", "l">>
InQuotes(w) == {<<q>> \o w \o <<q>> : q \in {"\"", "'"}}

\* the status a token stands for when the quotes are optional
StatusQuotedOrNot(t) ==
    IF t \in InQuotes(Str_dev) \cup {Str_dev} THEN "Dev"
    ELSE IF t \in InQuotes(Str_final) \cup {Str_final} THEN "Final"
    ELSE "other"

\* the status a token stands for when the quotes are required
StatusQuoted(t) ==
    IF t \in InQuotes(Str_dev) THEN "Dev"
    ELSE IF t \in InQuotes(Str_final) THEN "Final"
    ELSE "other"

\* the components of the call are read as described: an error for empty
\* text, for more than 5 components and for a numeric component that is not
\* an integer; otherwise, when the status component is absent or a status
\* token, the version of components 0-2 and that status
TupledReadAs(StatusOf(_)) ==
    LET ps == call.parts
        n == Len(ps)
        r == result[1]
        Number(k) == ParseI32(Trim(ps[k]))
        Component(k) == IF n >= k THEN Number(k) ELSE None
        numbersOk == \A k \in 1..n : k <= 3 => Number(k) # None
    IN /\ call.text = <<>> => r.tag = "Err"
       /\ n > 5 => r.tag = "Err"
       /\ ~numbersOk => r.tag = "Err"
       /\ (n <= 5 /\ numbersOk /\ (n >= 4 => StatusOf(Trim(ps[4])) # "other"))
            => /\ r.tag = "Ok"
               /\ r.v = Version(Number(1)[1], Component(2), Component(3))
               /\ r.status = IF n >= 4 THEN Some(StatusOf(Trim(ps[4]))) ELSE None

\* C19 (as stated): from_tupled reads 1 to 5 comma-separated components,
\* optionally in parentheses: integers for major, minor and micro, the status
\* token dev or final with or without surrounding quotes, a fifth component
\* that is ignored; empty text, more than 5 components and a non-integer
\* numeric component are errors
C19_FromTupledQuotesOptional == Returned("from_tupled") => TupledReadAs(StatusQuotedOrNot)

\* C19 (amended): the same, with the status token dev or final wrapped in
\* double or single quotes; any other fourth component, the bare words dev
\* and final included, is an error
C19_FromTupledQuotesRequired ==
    Returned("from_tupled")
        => /\ TupledReadAs(StatusQuoted)
           /\ (Len(call.parts) >= 4 /\ StatusQuoted(Trim(call.parts[4])) = "other")
                => result[1].tag = "Err"

C19_Witness ==
    /\ Returned("from_tupled")
    /\ Len(call.parts) = 5
    /\ Head(call.text) = "("
    /\ result[1].tag = "Ok"
    /\ result[1].v.micro # None
    /\ result[1].status = Some("Final")

\* the variable VERSION_VARIABLES[i] occurs in the text
Uses(text, i) == IndexOf(text, <<"$">> \o VERSION_VARIABLES[i]) # 0

\* the variable has a resolution for the version: the tupled forms write all
\* three components, the component variables write their own
Resolves(i, v) ==
    CASE i \in {1, 2} -> v.minor # None /\ v.micro # None
      [] i \in {3, 4} -> TRUE
      [] i = 5 -> v.minor # None
      [] i = 6 -> v.micro # None

\* the text with every occurrence of every resolving variable substituted
RECURSIVE Substituted(_, _, _, _)
Substituted(text, v, s, i) ==
    IF i > Len(VERSION_VARIABLES) THEN text
    ELSE Substituted(IF Resolves(i, v)
                     THEN Replace(text, <<"$">> \o VERSION_VARIABLES[i], VariableValue(i, v, s).val)
                     ELSE text,
                     v, s, i + 1)

\* C15: expand_vars substitutes all occurrences of every recognized variable
\* that resolves, returns the "no expansion for variable" error exactly when
\* the text contains a recognized variable that has no resolution for the
\* version, and for every text and version, absent minor or micro included,
\* returns the substituted text or that error
C15_ExpandVarsTextOrError ==
    Returned("expand_version_vars")
        => LET r == result[1]
               unresolved == \E i \in {5, 6} : Uses(call.text, i) /\ ~Resolves(i, call.new_version)
           IN /\ r.tag \in {"Ok", "Err"}
              /\ r.tag = "Err" => (r.error = "no expansion for variable" /\ unresolved)
              /\ unresolved => r.tag = "Err"
              /\ r.tag = "Ok" => r.text = Substituted(call.text, call.new_version, call.status, 1)

\* the lines of the file the claim's regex matches
MatchingLines(file, new_line, match) ==
    LET re == IF match # None THEN match_re(match[1]) ELSE version_line_re_pattern(new_line)
    IN {i \in DOMAIN file : IsUtf8(file[i]) /\ is_match(re, file[i])}

\* C14: update_file replaces every line that matches the regex (the explicit
\* match if given, else the one derived from the new-line template) with
\* expand_vars(template, new_version, status) and leaves the other lines
\* unchanged; if no line matches it returns a "no matches" error and the file
\* is not written
C14_UpdateFileReplacesMatchingLines ==
    Returned("update_version_in_file")
        => LET r == result[1]
               matching == MatchingLines(call.file, call.new_line, call.match)
           IN IF matching = {}
              THEN r.tag = "Err" /\ r.error = "No matches" /\ r.file = call.file
              ELSE (\A i \in DOMAIN VERSION_VARIABLES :
                        Uses(call.new_line, i) => Resolves(i, call.new_version))
                       => /\ r.tag = "Ok"
                          /\ r.file = [i \in DOMAIN call.file |->
                                          IF i \in matching
                                          THEN Substituted(call.new_line, call.new_version,
                                                           call.status, 1)
                                          ELSE call.file[i]]

(***************************************************************************)
(* Claims about the changelog header and the header line parser (SpecNews). *)
(***************************************************************************)
\* the line without its newline terminator
WithoutNewline(line) ==
    IF line # <<>> /\ line[Len(line)] = NL THEN SubSeq(line, 1, Len(line) - 1) ELSE line

\* a line of a decorated header: a banner, a release-notes title, an
\* underline rule or a blank line
IsDecoration(line) ==
    LET t == WithoutNewline(line)
    IN \/ StartsWith(t, ChangelogFor)
       \/ EndsWith(t, ReleaseNotes)
       \/ \A i \in 1..Len(t) : t[i] = "=" \/ t[i] = "-"

\* the number of decoration lines the file starts with
RECURSIVE LeadingDecorations(_)
LeadingDecorations(ls) ==
    IF ls # <<>> /\ IsDecoration(Head(ls)) THEN 1 + LeadingDecorations(Tail(ls)) ELSE 0

\* C21: skip_header, applied to the lines as read from the file, skips
\* banners, release-notes titles, underline rules and blank lines and returns
\* the index of the first entry header, so that the changelog operations
\* work on that entry
C21_SkipHeaderSkipsDecoration ==
    (mode = "news" /\ op # "none")
        => /\ skip_header(prevLines) = LeadingDecorations(prevLines)
           /\ (op = "find_pending" /\ LeadingDecorations(prevLines) < Len(prevLines))
                => LET e == parse_version_line(prevLines[LeadingDecorations(prevLines) + 1])
                   IN (e.tag = "Ok" /\ e.pending /\ e.version # None)
                        => ret = [tag |-> "Ok", val |-> e.version]

\* C22: find_pending_version returns NotFound when no changelog is configured
\* or the changelog has no entry after its header, NoUnreleasedChanges when
\* the first entry has a placeholder but no real version, OddPendingVersion
\* when the version token does not parse as a version, and otherwise the
\* parsed pending version; it never aborts
C22_FindPendingVersionNeverAborts ==
    (Returned("find_pending_version")
        /\ \A i \in DOMAIN call.lines : IsUtf8(call.lines[i]))
        => LET r == result[1]
               ls == call.lines
               i == skip_header(ls)
               e == parse_version_line(ls[i + 1])
           IN /\ r.tag \in {"NotFound", "NoUnreleasedChanges", "OddPendingVersion", "Ok"}
              /\ ~call.news_file => r.tag = "NotFound"
              /\ (call.news_file /\ i >= Len(ls)) => r.tag = "NotFound"
              /\ (call.news_file /\ i < Len(ls))
                    => /\ e.tag = "OddVersion" => r.tag = "OddPendingVersion"
                       /\ (e.tag = "Ok" /\ e.pending /\ e.version = None)
                            => r.tag = "NoUnreleasedChanges"
                       /\ (e.tag = "Ok" /\ e.pending /\ e.version # None)
                            => IF from_str(e.version[1]).tag = "Ok"
                               THEN r = from_str(e.version[1])
                               ELSE r.tag = "OddPendingVersion"

\* C23: parse_version_line applies the first matching layout among
\* tab-separated, space-separated (date optionally in parentheses) and
\* version-only, and returns that layout's template, pending = version is a
\* placeholder or date is a placeholder, and version / date as None exactly
\* when that token is a placeholder; a version token that is neither a
\* placeholder nor made of digits and dots gives OddVersion
C23_ParseVersionLine ==
    Returned("parse_version_line")
        => LET raw == call.line
               r == result[1]
           IN IF ~WellFormedHeader(raw) THEN r.tag = "OddVersion"
              ELSE /\ r.tag = "Ok"
                   /\ r.template = (IF HeaderSeparator(raw) = TAB THEN TabTemplate
                                    ELSE IF HeaderSeparator(raw) = "" THEN VersionOnlyTemplate
                                    ELSE IF HasParens(raw) THEN ParenTemplate
                                    ELSE SpaceTemplate)
                   /\ r.pending = EntryIsPending(raw)
                   /\ r.version = (IF VersionIsPlaceholder(raw) THEN None
                                   ELSE Some(VersionToken(raw)))
                   /\ r.date = (IF HeaderSeparator(raw) = "" \/ DateIsPlaceholder(raw) THEN None
                                ELSE Some(DateToken(raw)))

C23_Witness ==
    /\ Returned("parse_version_line")
    /\ HeaderSeparator(call.line) = TAB
    /\ ContainsChar(Trim(call.line), " ")
    /\ result[1].tag = "Ok"
    /\ result[1].pending
    /\ result[1].version # None
    /\ result[1].date = None

(***************************************************************************)
(* Claims about the steps of one release attempt (Spec).                   *)
(***************************************************************************)
\* C24: after a release of new_version the orchestrator computes
\* pending_version = increase_version(new_version, -1), which strictly
\* exceeds new_version, and, when a changelog is configured, inserts it as
\* the new pending entry, so that find_pending_version on the resulting tree
\* returns pending_version
C24_NextPendingVersionIsFound ==
    (mode = "release" /\ pc \in {"commit_next", "push_next", "milestone", "pull"})
        => LET pending_version == increase_version(ws.new_version[1], -1)
           IN /\ VersionLess(ws.new_version[1], pending_version)
              /\ cfgR.news =>
                    find_pending_version(TRUE, lines) = [tag |-> "Ok", v |-> pending_version]

\* an upload command of publish_artifacts failed to start or exited non-zero
UploadCommandFailure ==
    \/ ws.publish_error = Some("UploadCommandFailed")
    \/ "cargo_exit_nonzero" \in Events

\* C25: when an upload command (twine upload, cargo publish, scp) fails to
\* start or exits with a non-zero status, the attempt does not continue to
\* the branch push, and once it is over it has ended in
\* PublishArtifactsFailed (or in the error of the tag deletion that precedes
\* it).
C25_UploadFailureEndsAttempt ==
    (mode = "release" /\ ~cfgR.dry_run /\ UploadCommandFailure)
        => /\ pc \in {"publish_failed", "done"}
           /\ "push_branch" \notin Events
           /\ pc = "done" => outcome \in {Some("PublishArtifactsFailed"), Some("Other")}

(***************************************************************************)
(* Claims about the last released version (SpecVersion).                   *)
(***************************************************************************)
\* C26: find_last_version never fails: it returns what the files strategy
\* finds, else what the tag strategy finds, else (None, None); an error or
\* an empty result of either strategy is not fatal, an ancestry without any
\* tag included.
C26_FindLastVersionNeverFails ==
    Returned("find_last_version") =>
        LET f == find_last_version_in_files(call.tree)
            t == IF call.tag_name = None THEN Found(None, None)
                 ELSE find_last_version_in_tags(call.branch, call.tag_name[1])
            Yields(r) == r.tag = "Ok" /\ r.v # None
        IN /\ result[1].tag = "Ok"
           /\ Yields(f) => result[1] = f
           /\ (~Yields(f) /\ Yields(t)) => result[1] = t
           /\ (~Yields(f) /\ ~Yields(t)) => result[1] = Found(None, None)

(***************************************************************************)
(* Claims about waiting for the CI (SpecVersion).                          *)
(***************************************************************************)
\* the configured timeout, given in minutes, as seconds
TimeoutSeconds(timeout) ==
    60 * (IF timeout = None THEN DEFAULT_GITHUB_CI_TIMEOUT ELSE timeout[1])

\* C27: wait_for_gh_actions polls every 30 seconds while the status is
\* Pending and returns the status as soon as it is Ok or Failed; it returns
\* TimedOut once the timeout, given in minutes (default 1440), has elapsed,
\* neither before that nor more than one sleep after it.
C27_WaitForGhActions ==
    (Returned("wait_for_gh_actions") /\ result[1].tag # "Err") =>
        LET limit == TimeoutSeconds(call.timeout)
            settled == call.pending * POLL_INTERVAL
        IN IF settled < limit
           THEN result[1] = [tag |-> call.final, elapsed |-> settled]
           ELSE /\ result[1].tag = "TimedOut"
                /\ result[1].elapsed >= limit
                /\ result[1].elapsed < limit + POLL_INTERVAL

\* the paths whose contents differ between the nearest tagged ancestor of the
\* tip (the empty tree when there is none) and the tip
Differing(branch) ==
    LET base == IF from_revid(branch) = None THEN NullTree
                ELSE branch.trees[from_revid(branch)[1]]
    IN {p \in Paths : base[p] # branch.trees[1][p]}

\* the difference is at most a modification of the changelog file
ChangelogOnly(branch) ==
    \A p \in Differing(branch) :
        /\ cfgR.news /\ p = "NEWS"
        /\ branch.trees[1][p] # "absent"
        /\ branch.trees[from_revid(branch)[1]][p] # "absent"

\* C28: check_new_revisions lets the release go on only when the tip is not
\* tagged and the trees of the nearest tagged ancestor and of the tip differ
\* by more than a modification of the changelog file; otherwise
\* release_project returns NoUnreleasedChanges with no version picked,
\* nothing committed or tagged and the remote untouched.
C28_NoUnreleasedChanges ==
    (mode = "release" /\ ws.history # None) =>
        LET branch == ws.history[1]
            unchanged == \/ branch.ancestry[1] # {}
                         \/ from_revid(branch) # None /\ ChangelogOnly(branch)
                         \/ Differing(branch) = {}
        IN /\ pc = "release_age" => ~unchanged
           /\ unchanged =>
                 /\ Ended("NoUnreleasedChanges")
                 /\ ws.new_version = None /\ ws.notes = None /\ ws.commits = <<>>
                 /\ ws.tags = initTags /\ trace = <<>> /\ nops = 0
                 /\ RemoteUnchanged

C28_Witness ==
    /\ Ended("NoUnreleasedChanges")
    /\ ws.history # None
    /\ ws.history[1].ancestry[1] = {}
    /\ Differing(ws.history[1]) = {"NEWS"}

(***************************************************************************)
(* Claims about the age of the last commit (SpecVersion).                  *)
(***************************************************************************)
\* C29: when release_timeout is configured and the age of the tip in whole
\* days (negative for a commit dated in the future) is less than it, the
\* release is refused with RecentCommits{min_commit_age, commit_age} unless
\* force is set; with force set the gate lets every release through.
C29_RecentCommits ==
    (Returned("release_age_gate") /\ ~call.revision_error) =>
        LET commit_age == num_days(call.now - call.commit_time)
            recent == call.release_timeout # None /\ commit_age < call.release_timeout[1]
        IN /\ (recent /\ ~call.force) =>
                 result[1] = [tag |-> "RecentCommits",
                              min_commit_age |-> call.release_timeout[1],
                              commit_age |-> commit_age]
           /\ call.force => result[1] = [tag |-> "Ok"]

(***************************************************************************)
(* Claims about the version of pyproject.toml (SpecVersion).               *)
(***************************************************************************)
\* C30: with a static version under [project],
\* update_version_in_pyproject_toml rewrites the field, so that once it has
\* returned true find_version_in_pyproject_toml on the tree returns
\* new_version; with a dynamic or an absent version it returns false and
\* leaves the file as it was.
C30_UpdatePyprojectVersion ==
    (Returned("update_version_in_pyproject_toml") /\ call.tree \in PyprojectDocuments) =>
        LET static == call.tree.project /\ ~call.tree.dynamic /\ call.tree.version # None
            after == result[1].tree
        IN /\ static => result[1].tag = "Ok" /\ result[1].val
           /\ (result[1].tag = "Ok" /\ result[1].val) =>
                 find_version_in_pyproject_toml(after)
                     = [tag |-> "Ok", v |-> Some(call.new_version)]
           /\ (call.tree.project /\ ~static) =>
                 result[1] = [tag |-> "Ok", val |-> FALSE, tree |-> call.tree]

(***************************************************************************)
(* Claims about parsing and reading versions back (SpecVersion).           *)
(***************************************************************************)
\* one of the first three dot-separated segments of s is not an integer
HasBadSegment(s) ==
    \E k \in 1..3 : k <= Len(Split(s, ".")) /\ ParseI32(Split(s, ".")[k]) = None

\* C31: parsing a version text whose first, second or third segment is
\* present but is not an integer returns an error value: it neither aborts
\* the program nor puts a default in place of the segment.
C31_BadSegmentIsParseError ==
    (Returned("from_str") /\ HasBadSegment(call.s)) => result[1].tag = "Err"

\* the text that stands for $VERSION when the whole tag is the template with
\* its other characters taken literally (None when the tag is not of that form)
LiteralCapture(tag_template, tag) ==
    LET at == IndexOf(tag_template, VERSION_VAR)
        prefix == SubSeq(tag_template, 1, at - 1)
        suffix == SubSeq(tag_template, at + Len(VERSION_VAR), Len(tag_template))
    IN IF /\ Len(tag) >= Len(prefix) + Len(suffix)
          /\ StartsWith(tag, prefix)
          /\ EndsWith(tag, suffix)
       THEN Some(SubSeq(tag, Len(prefix) + 1, Len(tag) - Len(suffix)))
       ELSE None

\* C32: unexpand_tag returns a version only when the whole tag is the
\* template with $VERSION replaced by a valid version string, the other
\* characters of the template being literal; for every other tag it returns
\* an error.
C32_UnexpandTagWholeTag ==
    Returned("unexpand_tag") =>
        LET m == LiteralCapture(call.tag_template, call.tag)
        IN IF m # None /\ from_str(m[1]).tag = "Ok"
           THEN result[1] = from_str(m[1])
           ELSE result[1].tag = "Err"

\* what the captures of one line decode to
DecodedLine(new_line, line) ==
    version_from_capture_matches(version_line_re_groups(new_line),
                                 captures(version_line_re(new_line).re, line))

\* C33: reverse_version returns the version and status decoded from the first
\* line whose captures decode; lines that do not match the template or whose
\* captured text is not a version are skipped, and (None, None) is returned
\* when no line decodes.
C33_ReverseVersionFirstDecodable ==
    (Returned("reverse_version") /\ version_line_re(call.new_line).tag = "Ok") =>
        LET Decodes(i) == /\ DecodedLine(call.new_line, call.lines[i]).tag = "Ok"
                          /\ DecodedLine(call.new_line, call.lines[i]).v # None
            good == {i \in DOMAIN call.lines : Decodes(i)}
        IN IF good = {} THEN result[1] = [tag |-> "Ok", v |-> None, status |-> None]
           ELSE result[1] = DecodedLine(call.new_line,
                                        call.lines[CHOOSE i \in good : \A j \in good : i <= j])

(***************************************************************************)
(* Claims about dry runs and about publishing (Spec).                      *)
(***************************************************************************)
\* C34: in a dry run the artifact build step is skipped: no attempt with
\* dry_run set builds an artifact.
C34_DryRunBuildsNothing ==
    (mode = "release" /\ cfgR.dry_run) => ("build" \notin Events /\ ~ws.built)

\* the events that change something outside the workspace
RemoteMutations ==
    Uploads \cup {"push_tag", "push_branch", "propose", "merge", "gh_release", "lp_release",
                  "milestone", "push_next", "delete_tag", "delete_tag_failed", "pull"}

\* C35: with dry_run set, no execution of release_project changes anything
\* remote: no tag or branch push, no merge proposal, no upload, no forge
\* release or milestone, no tag deletion and no pull into the local branch.
C35_DryRunLeavesRemoteAlone ==
    (mode = "release" /\ cfgR.dry_run) =>
        (RemoteUnchanged /\ Events \cap RemoteMutations = {})

C35_Witness ==
    /\ Ended("Ok")
    /\ cfgR.dry_run /\ cfgR.gh /\ cfgR.lp
    /\ tag_name \in ws.tags
    /\ Len(ws.commits) = 2

\* C36: with dry-run off and the GitHub repository known, something is
\* uploaded to a registry or a tarball location only when the wait for the CI
\* of the pushed tag ended with status Ok; a Failed status or a timeout
\* prevents every upload of the attempt.
C36_UploadsOnlyAfterGreenCI ==
    (mode = "release" /\ ~cfgR.dry_run /\ cfgR.gh /\ (Events \cap Uploads # {} \/ remote.registry # {}))
        => ws.ci_wait = "Ok"

\* C37: when an attempt ends in PublishArtifactsFailed, with the tag rolled
\* back, no upload target (PyPI, crates.io, a tarball location) has received
\* an artifact of the version.
C37_NothingUploadedWhenPublishFails ==
    Ended("PublishArtifactsFailed") => (remote.registry = {} /\ Events \cap Uploads = {})

(***************************************************************************)
(* Claims about a further attempt after a release (SpecAgain).             *)
(***************************************************************************)
\* C38: after a successful release without dry_run, a further attempt on the
\* same repository, to which nothing but the tool's own commits was added,
\* stops at the test for new revisions (NoUnreleasedChanges) or at the test
\* of the tag (ReleaseTagExists) at the latest: it never ends in Ok and it
\* creates no tag, pushes nothing and uploads nothing.
C38_FurtherAttemptReleasesNothing ==
    mode = "again" =>
        /\ outcome # Some("Ok")
        /\ Events \cap ({"create_tag"} \cup RemoteMutations) = {}

(***************************************************************************)
(* Claims about writing a version and reading it back (SpecVersion).       *)
(***************************************************************************)
\* C39: for a template line with $VERSION and a file of UTF-8 lines with a
\* matching line, after update_version_in_file without an explicit match has
\* succeeded the file has as many lines as it had, and reverse_version over
\* the lines of the written file, with the same template, returns the
\* version that was written.
C39_UpdateThenReverseRoundTrip ==
    (/\ Returned("round_trip")
     /\ \A i \in DOMAIN call.file : IsUtf8(call.file[i])
     /\ result[1].updated.tag = "Ok") =>
        /\ Len(buf_lines(Concat(result[1].updated.file))) = Len(buf_lines(Concat(call.file)))
        /\ result[1].read.tag = "Ok"
        /\ result[1].read.v = Some(call.new_version)

(***************************************************************************)
(* Claims about the loop of pick_new_version (SpecVersion).                *)
(***************************************************************************)
\* C40: the increment loop of pick_new_version ends for every finite set of
\* tags: it has returned a version after at most (number of tags + 1) tag
\* lookups, so it neither goes on after that many lookups nor ends without
\* a version.
C40_PickLoopTerminates ==
    (mode = "version" /\ call.fn = "pick_new_version" /\ result # None) =>
        /\ result[1].tag # "Panic"
        /\ result[1].lookups <= Cardinality(call.tags) + 1
        /\ result[1].tag = "Loop" => result[1].lookups <= Cardinality(call.tags)

====
